---- MODULE Spec2Model ----
(***************************************************************************)
(* Caption pipeline of torgman's backend: the sentence segmenter and the   *)
(* caption grouper of TranscriptionGenerator, the two-line formatter       *)
(* format_multiline_caption, and the subtitle document of ass_utils (time  *)
(* codes, colours, font names, the style line and the dialogue lines).     *)
(*                                                                         *)
(* Strings are sequences of one-character strings.  The times of words are *)
(* integers counting tenths of a second, so a limit given in seconds is    *)
(* multiplied by 10 before it is compared with a difference of times; the  *)
(* times of subtitles count milliseconds and margins count half pixels.    *)
(* Word tokens are non-empty and hold no inner whitespace; Whisper's       *)
(* leading space is kept in the raw word and removed by Strip, as the code *)
(* does.  An Optional field is the empty set for None and {v} for v.       *)
(***************************************************************************)
EXTENDS Integers, Sequences, FiniteSets, TLC

VARIABLES
    words,                  \* the word list handed to generate_captions
    doc_sents,              \* sentence spans nlp() returns for the transcript
    gen,                    \* the generator's fields (self.max_*)
    segments,               \* result of _create_semantic_segments
    seg_i,                  \* position of the for loop over segments (1-based)
    current_caption_words,  \* the accumulator
    captions,               \* the captions emitted so far
    pc,                     \* position inside generate_captions
    text,                   \* argument of format_multiline_caption
    lines,                  \* its result
    seconds,                \* argument of _to_ass_time, in milliseconds
    time_code,              \* its result, the argument of string_to_seconds
    decoded,                \* result of string_to_seconds: raised, or milliseconds
    color,                  \* first argument of _hex_to_ass_color
    alpha,                  \* its second argument
    ass_color,              \* its result
    font_family,            \* first argument of _get_font_name
    font_dirs,              \* the folders _installed_font_families finds on disk
    font_name,              \* result of _get_font_name
    subtitles,              \* the captions handed to create_ass_content
    style_config,           \* the SubtitleConfig handed to it
    ass_content,            \* the document it returns
    method,                 \* the method of the generator a caller has under way
    original_params,        \* local of regenerate_captions_with_params
    calls,                  \* history: the calls made on the generator so far
    active_connections,     \* ConnectionManager.active_connections
    project_connections,    \* ConnectionManager.project_connections
    endpoint,               \* position of each websocket's endpoint coroutine
    tasks,                  \* the send_to_project and broadcast coroutines
    removed                 \* history: websockets cleaned up after a failed send

\* the variables of the caption pipeline and those of the subtitle document
caption_vars == <<words, doc_sents, gen, segments, seg_i, current_caption_words,
                  captions, text, lines>>

ass_vars == <<seconds, time_code, decoded, color, alpha, ass_color, font_family,
              font_dirs, font_name, subtitles, style_config, ass_content>>

\* the variables of a caller of the generator and those of the websocket service
regen_vars == <<method, original_params, calls>>

ws_vars == <<active_connections, project_connections, endpoint, tasks, removed>>

vars == <<caption_vars, pc, ass_vars, regen_vars, ws_vars>>

\* the value of a variable that holds nothing yet
None == "None"

\* no call into ass_utils or text_utils is under way
AssIdle ==
    /\ seconds = 0
    /\ time_code = <<>>
    /\ decoded = None
    /\ color = <<>>
    /\ alpha = <<>>
    /\ ass_color = None
    /\ font_family = <<>>
    /\ font_dirs = {}
    /\ font_name = <<>>
    /\ subtitles = <<>>
    /\ style_config = None
    /\ ass_content = None

\* no caller has made a call on the generator
GeneratorIdle ==
    /\ method = None
    /\ original_params = {}
    /\ calls = <<>>

\* no websocket has been opened and no message is being sent
WebsocketIdle ==
    /\ active_connections = <<>>
    /\ project_connections = <<>>
    /\ endpoint = <<>>
    /\ tasks = <<>>
    /\ removed = {}

ServicesIdle == GeneratorIdle /\ WebsocketIdle

(***************************************************************************)
(* Bounds of the model.                                                    *)
(***************************************************************************)
MaxWords == 3
MaxWordLen == 2
MaxTime == 2
MaxCharsPerLine == 2
MaxDuration == 1
MaxCps == 2
MaxTextLen == 8
MaxLineChars == 4
MaxMillis == 1500
MaxColorPieces == 4
MaxAltered == 2
MaxSplitWords == 4
MaxRegenWords == 2
MaxCalls == 3
MaxSockets == 2
MaxTasks == 2

\* default of max_lines_per_caption; the spec allows 1 or 2 lines
MaxLinesPerCaption == 2

(***************************************************************************)
(* Python string primitives.                                               *)
(***************************************************************************)
Min(a, b) == IF a < b THEN a ELSE b
Abs(a) == IF a < 0 THEN 0 - a ELSE a

IsSpace(c) == c \in {" ", "\n"}

\* s[a:b] with 0-based a, b already non-negative
Slice(s, a, b) == SubSeq(s, a + 1, Min(b, Len(s)))

RECURSIVE LStrip(_)
LStrip(s) == IF s # <<>> /\ IsSpace(Head(s)) THEN LStrip(Tail(s)) ELSE s

RECURSIVE RStrip(_)
RStrip(s) ==
    IF s # <<>> /\ IsSpace(s[Len(s)]) THEN RStrip(SubSeq(s, 1, Len(s) - 1)) ELSE s

\* str.strip()
Strip(s) == RStrip(LStrip(s))

\* sep.join(parts)
RECURSIVE Join(_, _)
Join(parts, sep) ==
    IF parts = <<>> THEN <<>>
    ELSE IF Len(parts) = 1 THEN parts[1]
    ELSE parts[1] \o sep \o Join(Tail(parts), sep)

\* length of the leading run of non-space characters
RECURSIVE TokenLen(_)
TokenLen(s) == IF s = <<>> \/ IsSpace(Head(s)) THEN 0 ELSE 1 + TokenLen(Tail(s))

\* str.split(): the maximal runs of non-space characters
RECURSIVE Split(_)
Split(s) ==
    LET t == LStrip(s) IN
    IF t = <<>> THEN <<>>
    ELSE LET n == TokenLen(t) IN
         <<SubSeq(t, 1, n)>> \o Split(SubSeq(t, n + 1, Len(t)))

\* text.rfind(' ', 0, hi): highest 0-based index below hi holding a space, or -1
RFindSpace(s, hi) ==
    LET idx == {i \in 0..(Min(hi, Len(s)) - 1) : s[i + 1] = " "} IN
    IF idx = {} THEN -1 ELSE CHOOSE i \in idx : \A j \in idx : j <= i

(***************************************************************************)
(* format_multiline_caption                                                *)
(***************************************************************************)
\* PossibleSplits with the length test applied to the first line only
RECURSIVE PossibleSplitsFirstOnly(_, _, _)
PossibleSplitsFirstOnly(ws, i, max) ==
    IF i >= Len(ws) THEN <<>>
    ELSE LET line1 == Join(SubSeq(ws, 1, i), <<" ">>)
             line2 == Join(SubSeq(ws, i + 1, Len(ws)), <<" ">>)
         IN (IF Len(line1) <= max
             THEN <<<<line1, line2>>>> ELSE <<>>)
            \o PossibleSplitsFirstOnly(ws, i + 1, max)

\* the (line1, line2) candidates of the enumeration loop, in loop order
RECURSIVE PossibleSplits(_, _, _)
PossibleSplits(ws, i, max) ==
    IF i >= Len(ws) THEN <<>>
    ELSE LET line1 == Join(SubSeq(ws, 1, i), <<" ">>)
             line2 == Join(SubSeq(ws, i + 1, Len(ws)), <<" ">>)
         IN (IF Len(line1) <= max /\ Len(line2) <= max
             THEN <<<<line1, line2>>>> ELSE <<>>)
            \o PossibleSplits(ws, i + 1, max)

\* score = (is_top_heavy, length_difference)
Score(split) ==
    [top  |-> Len(split[1]) > Len(split[2]),
     diff |-> Abs(Len(split[1]) - Len(split[2])),
     inf  |-> FALSE]

\* Python's tuple order on scores: False < True, then the difference;
\* inf marks float('inf')
ScoreLess(a, b) ==
    \/ (~a.top) /\ b.top
    \/ /\ a.top = b.top
       /\ ~a.inf
       /\ (b.inf \/ a.diff < b.diff)

\* the scoring loop: keep the first candidate whose score is strictly lower
RECURSIVE BestSplit(_, _, _, _)
BestSplit(splits, k, best_split, best_score) ==
    IF k > Len(splits) THEN best_split
    ELSE IF ScoreLess(Score(splits[k]), best_score)
         THEN BestSplit(splits, k + 1, splits[k], Score(splits[k]))
         ELSE BestSplit(splits, k + 1, best_split, best_score)

\* the hard wrap taken when no candidate fits
HardWrap(t, max) ==
    LET mid_point == RFindSpace(t, max) IN
    IF mid_point = -1
    THEN <<Slice(t, 0, max), Strip(Slice(t, max, Len(t)))>>
    ELSE <<Slice(t, 0, mid_point), Strip(Slice(t, mid_point, Len(t)))>>

\* format_multiline_caption without the early return for a short text
FormatAlwaysSplit(t, max) ==
    LET possible_splits == PossibleSplits(Split(t), 1, max) IN
    IF possible_splits = <<>> THEN HardWrap(t, max)
    ELSE BestSplit(possible_splits, 1, <<>>,
                   [top |-> TRUE, diff |-> 0, inf |-> TRUE])

format_multiline_caption(t, max) ==
    IF Len(t) <= max THEN <<t>>
    ELSE LET possible_splits == PossibleSplits(Split(t), 1, max) IN
         IF possible_splits = <<>> THEN HardWrap(t, max)
         ELSE BestSplit(possible_splits, 1, <<>>,
                        [top |-> TRUE, diff |-> 0, inf |-> TRUE])

\* "\n".join(lines)
CaptionText(ls) == Join(ls, <<"\n">>)

(***************************************************************************)
(* TranscriptionGenerator._create_semantic_segments                        *)
(***************************************************************************)
\* " ".join(w["word"].strip() for w in ws)
JoinWords(ws) == Join([i \in 1..Len(ws) |-> Strip(ws[i].word)], <<" ">>)

\* step 1: full_transcript, every stripped word followed by one space
RECURSIVE FullTranscript(_)
FullTranscript(ws) ==
    IF ws = <<>> THEN <<>>
    ELSE Strip(Head(ws).word) \o <<" ">> \o FullTranscript(Tail(ws))

\* step 1: the character span of every word; offset is len(full_transcript)
RECURSIVE WordSpans(_, _)
WordSpans(ws, offset) ==
    IF ws = <<>> THEN <<>>
    ELSE LET word_text == Strip(Head(ws).word) IN
         <<[start_char |-> offset,
            end_char   |-> offset + Len(word_text),
            word_data  |-> Head(ws)]>>
         \o WordSpans(Tail(ws), offset + Len(word_text) + 1)

\* WordsWithin with the end of the sentence span taken as inclusive
RECURSIVE WordsWithinStrictEnd(_, _, _)
WordsWithinStrictEnd(word_spans, k, sent) ==
    IF /\ k <= Len(word_spans)
       /\ word_spans[k].start_char >= sent.start_char
       /\ word_spans[k].end_char < sent.end_char
    THEN 1 + WordsWithinStrictEnd(word_spans, k + 1, sent)
    ELSE 0

\* the inner while loop: how many consecutive words from index k lie within sent
RECURSIVE WordsWithin(_, _, _)
WordsWithin(word_spans, k, sent) ==
    IF /\ k <= Len(word_spans)
       /\ word_spans[k].start_char >= sent.start_char
       /\ word_spans[k].end_char <= sent.end_char
    THEN 1 + WordsWithin(word_spans, k + 1, sent)
    ELSE 0

\* step 3: the loop over doc.sents; k is current_word_index + 1
RECURSIVE GroupWords(_, _, _)
GroupWords(word_spans, sents, k) ==
    IF sents = <<>> THEN <<>>
    ELSE LET n == WordsWithin(word_spans, k, Head(sents))
             sentence_words ==
                 [i \in 1..n |-> word_spans[k + i - 1].word_data]
         IN (IF n > 0
             THEN <<[text       |-> JoinWords(sentence_words),
                     start_time |-> sentence_words[1].start,
                     end_time   |-> sentence_words[n].end,
                     words      |-> sentence_words]>>
             ELSE <<>>)
            \o GroupWords(word_spans, Tail(sents), k + n)

create_semantic_segments(ws, sents) == GroupWords(WordSpans(ws, 0), sents, 1)

(***************************************************************************)
(* TranscriptionGenerator.generate_captions, one action per step           *)
(***************************************************************************)
\* a caption dict; words is a history field (the words the text was built from)
Caption(ws, max_chars) ==
    [start_time |-> ws[1].start,
     end_time   |-> ws[Len(ws)].end,
     text       |-> CaptionText(format_multiline_caption(JoinWords(ws), max_chars)),
     words      |-> ws]

\* ConstraintViolated with the duration limit not converted to the unit of the times
ConstraintViolatedUnits(potential_words, g) ==
    LET potential_text == JoinWords(potential_words)
        duration == potential_words[Len(potential_words)].end
                    - potential_words[1].start
    IN \/ duration > g.max_caption_duration
       \/ (duration > 0 /\ Len(potential_text) * 10 > g.max_cps * duration)
       \/ Len(potential_text) > g.max_caption_length

\* the constraint check on the tentative merge (duration, cps, total length)
ConstraintViolated(potential_words, g) ==
    LET potential_text == JoinWords(potential_words)
        duration == potential_words[Len(potential_words)].end
                    - potential_words[1].start
    IN \/ duration > g.max_caption_duration * 10
       \/ (duration > 0 /\ Len(potential_text) * 10 > g.max_cps * duration)
       \/ Len(potential_text) > g.max_caption_length

\* the for loop over j run upwards: the smallest j whose prefix fits, else 1
SplitPointFirstFit(ws, max_len) ==
    LET fits == {j \in 1..(Len(ws) - 1) :
                    Len(JoinWords(SubSeq(ws, 1, j))) <= max_len}
    IN IF fits = {} THEN 1 ELSE CHOOSE j \in fits : \A k \in fits : j <= k

\* the for loop over j: the largest j in len-1 .. 1 whose prefix fits, else 1
SplitPoint(ws, max_len) ==
    LET fits == {j \in 1..(Len(ws) - 1) :
                    Len(JoinWords(SubSeq(ws, 1, j))) <= max_len}
    IN IF fits = {} THEN 1 ELSE CHOOSE j \in fits : \A k \in fits : k <= j

\* generate_captions is entered: empty input returns at once
Start ==
    /\ pc = "call"
    /\ IF words = <<>>
       THEN /\ pc' = "done"
            /\ UNCHANGED segments
       ELSE /\ segments' = create_semantic_segments(words, doc_sents)
            /\ pc' = "loop"
    /\ captions' = <<>>
    /\ current_caption_words' = <<>>
    /\ seg_i' = 1
    /\ UNCHANGED <<words, doc_sents, gen, text, lines>>
    /\ UNCHANGED ass_vars
    /\ UNCHANGED <<regen_vars, ws_vars>>

\* one iteration of the for loop up to the decision to flush or to extend
NextSegment ==
    /\ pc = "loop"
    /\ seg_i <= Len(segments)
    /\ LET segment == segments[seg_i]
           potential_words == current_caption_words \o segment.words
       IN IF current_caption_words # <<>> /\ ConstraintViolated(potential_words, gen)
          THEN /\ pc' = "split"
               /\ UNCHANGED <<current_caption_words, seg_i>>
          ELSE /\ current_caption_words' = potential_words
               /\ seg_i' = seg_i + 1
               /\ pc' = "loop"
    /\ UNCHANGED <<words, doc_sents, gen, segments, captions, text, lines>>
    /\ UNCHANGED ass_vars
    /\ UNCHANGED <<regen_vars, ws_vars>>

\* one iteration of the while loop that splits an oversized accumulator
SplitOversize ==
    /\ pc = "split"
    /\ Len(JoinWords(current_caption_words)) > gen.max_caption_length
    /\ LET split_point == SplitPoint(current_caption_words, gen.max_caption_length)
           words_to_finalize == SubSeq(current_caption_words, 1, split_point)
       IN /\ captions' = Append(captions,
                                Caption(words_to_finalize, gen.max_chars_per_line))
          /\ current_caption_words' =
                 SubSeq(current_caption_words, split_point + 1,
                        Len(current_caption_words))
    /\ UNCHANGED <<words, doc_sents, gen, segments, seg_i, pc, text, lines>>
    /\ UNCHANGED ass_vars
    /\ UNCHANGED <<regen_vars, ws_vars>>

\* after the while loop: the rest of the accumulator becomes a caption and the
\* segment starts the next one; indexing an empty rest raises IndexError
FlushRemaining ==
    /\ pc = "split"
    /\ Len(JoinWords(current_caption_words)) <= gen.max_caption_length
    /\ IF current_caption_words = <<>>
       THEN /\ pc' = "raised"
            /\ UNCHANGED <<captions, current_caption_words, seg_i>>
       ELSE /\ captions' = Append(captions,
                                  Caption(current_caption_words, gen.max_chars_per_line))
            /\ current_caption_words' = segments[seg_i].words
            /\ seg_i' = seg_i + 1
            /\ pc' = "loop"
    /\ UNCHANGED <<words, doc_sents, gen, segments, text, lines>>
    /\ UNCHANGED ass_vars
    /\ UNCHANGED <<regen_vars, ws_vars>>

\* after the for loop: whatever is left in the buffer becomes the last caption
FinalFlush ==
    /\ pc = "loop"
    /\ seg_i > Len(segments)
    /\ captions' = IF current_caption_words # <<>>
                   THEN Append(captions,
                               Caption(current_caption_words, gen.max_chars_per_line))
                   ELSE captions
    /\ pc' = "done"
    /\ UNCHANGED <<words, doc_sents, gen, segments, seg_i, current_caption_words,
                   text, lines>>
    /\ UNCHANGED ass_vars
    /\ UNCHANGED <<regen_vars, ws_vars>>

(***************************************************************************)
(* FormatCaption: one call of format_multiline_caption on a caption text   *)
(***************************************************************************)
FormatCaption ==
    /\ pc = "format"
    /\ lines' = format_multiline_caption(text, gen.max_chars_per_line)
    /\ pc' = "formatted"
    /\ UNCHANGED <<words, doc_sents, gen, segments, seg_i, current_caption_words,
                   captions, text>>
    /\ UNCHANGED ass_vars
    /\ UNCHANGED <<regen_vars, ws_vars>>

(***************************************************************************)
(* Segment: one call of _create_semantic_segments                          *)
(***************************************************************************)
Segment ==
    /\ pc = "segment"
    /\ segments' = create_semantic_segments(words, doc_sents)
    /\ pc' = "segmented"
    /\ UNCHANGED <<words, doc_sents, gen, seg_i, current_caption_words,
                   captions, text, lines>>
    /\ UNCHANGED ass_vars
    /\ UNCHANGED <<regen_vars, ws_vars>>

(***************************************************************************)
(* Inputs                                                                  *)
(***************************************************************************)
\* TranscriptionGenerator.__init__: the fields a generator is built with
Generator(chars, nlines, duration, cps) ==
    [max_chars_per_line    |-> chars,
     max_lines_per_caption |-> nlines,
     max_caption_duration  |-> duration,
     max_cps               |-> cps,
     max_caption_length    |-> chars * nlines]

Generators ==
    {Generator(c, l, d, s) : c \in 1..MaxCharsPerLine, l \in 1..MaxLinesPerCaption,
                             d \in 1..MaxDuration, s \in 1..MaxCps}

\* a Whisper word of n letters: a leading space, then the token
RawWord(n) == <<" ">> \o [i \in 1..n |-> "a"]

\* a Word record; id is the identity of the dict object, times in tenths of a second
Word(i, raw, start, end) == [id |-> i, word |-> raw, start |-> start, end |-> end]

WordShapes ==
    {sh \in [len : 1..MaxWordLen, start : 0..MaxTime, end : 0..MaxTime] :
        sh.start <= sh.end}

\* word lists with start <= end for every word and non-decreasing starts
WordListsOfLen(n) ==
    {[i \in 1..n |-> Word(i, RawWord(f[i].len), f[i].start * 10, f[i].end * 10)] :
        f \in {g \in [1..n -> WordShapes] :
                  \A i \in 1..(n - 1) : g[i].start <= g[i + 1].start}}

WordLists(max_words) == UNION {WordListsOfLen(n) : n \in 0..max_words}

\* word lists in which only the texts vary
UntimedWordLists(max_words) ==
    UNION {{[i \in 1..n |-> Word(i, RawWord(f[i]), 0, 0)] : f \in [1..n -> 1..MaxWordLen]} :
           n \in 0..max_words}

RECURSIVE SortedSeq(_)
SortedSeq(S) ==
    IF S = {} THEN <<>>
    ELSE LET m == CHOOSE x \in S : \A y \in S : x <= y IN <<m>> \o SortedSeq(S \ {m})

\* doc.sents of a detector that ends a sentence after the words in breaks and
\* after the last word: each span runs from its first word's first character
\* to the end of its last word
SentencesAt(ws, breaks) ==
    LET word_spans == WordSpans(ws, 0)
        ends == SortedSeq(breaks \cup {Len(ws)})
    IN [k \in 1..Len(ends) |->
           [start_char |-> word_spans[IF k = 1 THEN 1 ELSE ends[k - 1] + 1].start_char,
            end_char   |-> word_spans[ends[k]].end_char]]

\* doc.sents of any detector over a stripped transcript: the first sentence
\* begins at the first character, a sentence begins at each position of starts
\* (which may lie inside a word) and ends with the last character that is no
\* space before the next sentence, and the last sentence ends at position stop
\* (which may lie before the end of the transcript)
DetectorOutputs(doc) ==
    LET ink == {i \in 0..(Len(doc) - 1) : ~IsSpace(doc[i + 1])}
        LastBefore(hi) == CHOOSE i \in ink : i < hi /\ \A j \in ink : j < hi => j <= i
        SpansOf(starts, stop) ==
            LET st == SortedSeq(starts) IN
            [k \in 1..Len(st) |->
                [start_char |-> st[k],
                 end_char   |-> (IF k < Len(st) THEN LastBefore(st[k + 1]) ELSE stop) + 1]]
    IN IF ink = {} THEN {<<>>}
       ELSE {SpansOf(p[1] \cup {0}, p[2]) :
                p \in {q \in (SUBSET ink) \X ink : \A i \in q[1] : i <= q[2]}}

\* the scenario of the specification's section 8
ScenarioWords ==
    <<Word(1, <<"H", "e", "l", "l", "o">>, 0, 4),
      Word(2, <<"w", "o", "r", "l", "d">>, 4, 9),
      Word(3, <<"t", "h", "i", "s">>, 15, 18),
      Word(4, <<"i", "s">>, 18, 20),
      Word(5, <<"a">>, 20, 21),
      Word(6, <<"t", "e", "s", "t">>, 21, 26)>>

ScenarioSents == SentencesAt(ScenarioWords, {2})

\* the constructor's defaults
DefaultGenerator == Generator(42, 2, 7, 21)

\* caption texts: every string of letters and spaces up to MaxTextLen
Texts(max_len) == UNION {[1..n -> {"a", "b", " "}] : n \in 0..max_len}

(***************************************************************************)
(* Specifications                                                          *)
(***************************************************************************)
\* generate_captions on a bounded word list, segmented at word boundaries
Init ==
    /\ words \in WordLists(MaxWords)
    /\ gen \in Generators
    /\ \E breaks \in SUBSET (1..(Len(words) - 1)) :
           doc_sents = IF words = <<>> THEN <<>> ELSE SentencesAt(words, breaks)
    /\ segments = <<>>
    /\ seg_i = 1
    /\ current_caption_words = <<>>
    /\ captions = <<>>
    /\ pc = "call"
    /\ text = <<>>
    /\ lines = <<>>
    /\ AssIdle
    /\ ServicesIdle

Next ==
    \/ Start
    \/ NextSegment
    \/ SplitOversize
    \/ FlushRemaining
    \/ FinalFlush

Spec == Init /\ [][Next]_vars

\* generate_captions on the words of the scenario, under every segmentation of
\* them at word boundaries, with the default generator or with short lines
InitScenario ==
    /\ words = ScenarioWords
    /\ gen \in {DefaultGenerator}
               \cup {Generator(c, MaxLinesPerCaption, 7, 21) : c \in 1..MaxCharsPerLine}
    /\ \E breaks \in SUBSET (1..(Len(ScenarioWords) - 1)) :
           doc_sents = SentencesAt(ScenarioWords, breaks)
    /\ segments = <<>>
    /\ seg_i = 1
    /\ current_caption_words = <<>>
    /\ captions = <<>>
    /\ pc = "call"
    /\ text = <<>>
    /\ lines = <<>>
    /\ AssIdle
    /\ ServicesIdle

SpecScenario == InitScenario /\ [][Next]_vars

\* _create_semantic_segments alone, on the spans of any detector
InitSeg ==
    /\ words \in UntimedWordLists(MaxWords)
    /\ doc_sents \in DetectorOutputs(Strip(FullTranscript(words)))
    /\ gen = DefaultGenerator
    /\ segments = <<>>
    /\ seg_i = 1
    /\ current_caption_words = <<>>
    /\ captions = <<>>
    /\ pc = "segment"
    /\ text = <<>>
    /\ lines = <<>>
    /\ AssIdle
    /\ ServicesIdle

NextSeg == Segment

SpecSeg == InitSeg /\ [][NextSeg]_vars

\* format_multiline_caption alone, on any text
InitFmt ==
    /\ text \in Texts(MaxTextLen)
    /\ gen \in {Generator(c, MaxLinesPerCaption, 7, 21) : c \in 1..MaxLineChars}
    /\ words = <<>>
    /\ doc_sents = <<>>
    /\ segments = <<>>
    /\ seg_i = 1
    /\ current_caption_words = <<>>
    /\ captions = <<>>
    /\ pc = "format"
    /\ lines = <<>>
    /\ AssIdle
    /\ ServicesIdle

NextFmt == FormatCaption

SpecFmt == InitFmt /\ [][NextFmt]_vars

\* generate_captions on longer word lists in which only the texts vary, cut
\* into at most two sentences, with a generator whose limits may be 0: the
\* accumulator that reaches the oversize split holds up to MaxSplitWords - 1
\* words
InitSplit ==
    /\ words \in UntimedWordLists(MaxSplitWords)
    /\ gen \in {Generator(c, l, MaxDuration, MaxCps) :
                   c \in 0..MaxCharsPerLine, l \in 1..MaxLinesPerCaption}
    /\ \E breaks \in {b \in SUBSET (1..(Len(words) - 1)) : Cardinality(b) <= 1} :
           doc_sents = IF words = <<>> THEN <<>> ELSE SentencesAt(words, breaks)
    /\ segments = <<>>
    /\ seg_i = 1
    /\ current_caption_words = <<>>
    /\ captions = <<>>
    /\ pc = "call"
    /\ text = <<>>
    /\ lines = <<>>
    /\ AssIdle
    /\ ServicesIdle

SpecSplit == InitSplit /\ [][Next]_vars

(***************************************************************************)
(* Python floats.  A float is a binary64 number: a natural here is held as *)
(* its little-endian sequence of bits, so that the 53-bit significand and  *)
(* the rounding to nearest, ties to even, are computed and not assumed.    *)
(***************************************************************************)
\* bits of the significand of a binary64 number
SignificandBits == 53

\* binary digits of the scaled quotient a decimal literal is rounded from
LiteralScale == 75

\* bits of the naturals a literal is made of
IntBits == 31

\* the recursions below take ChunkBits bits at a step
ChunkBits == 10

\* the w low bits of n
ToBitsN(n, w) == [i \in 1..w |-> (n \div 2^(i - 1)) % 2]

RECURSIVE FromBits(_)
FromBits(b) ==
    IF b = <<>> THEN 0
    ELSE IF Len(b) <= ChunkBits
         THEN Head(b) + 2 * FromBits(Tail(b))
         ELSE FromBits(SubSeq(b, 1, ChunkBits))
              + 2^ChunkBits * FromBits(SubSeq(b, ChunkBits + 1, Len(b)))

\* b without its high zeros
Trim(b) ==
    LET ones == {i \in DOMAIN b : b[i] = 1} IN
    IF ones = {} THEN <<>>
    ELSE SubSeq(b, 1, CHOOSE i \in ones : \A j \in ones : j <= i)

\* b + 1
Inc(b) ==
    LET zeros == {i \in DOMAIN b : b[i] = 0} IN
    IF zeros = {} THEN [i \in 1..Len(b) |-> 0] \o <<1>>
    ELSE LET z == CHOOSE i \in zeros : \A j \in zeros : i <= j IN
         [i \in 1..Len(b) |-> IF i < z THEN 0 ELSE IF i = z THEN 1 ELSE b[i]]

\* b * c + carry for a small c
RECURSIVE MulSmall(_, _, _)
MulSmall(b, c, carry) ==
    IF b = <<>> THEN ToBitsN(carry, ChunkBits)
    ELSE LET v == FromBits(SubSeq(b, 1, Min(ChunkBits, Len(b)))) * c + carry IN
         ToBitsN(v % 2^ChunkBits, ChunkBits)
         \o MulSmall(SubSeq(b, ChunkBits + 1, Len(b)), c, v \div 2^ChunkBits)

\* quotient and remainder of b by a small d
RECURSIVE DivSmall(_, _)
DivSmall(b, d) ==
    IF b = <<>> THEN [q |-> <<>>, r |-> 0]
    ELSE LET hi == DivSmall(SubSeq(b, ChunkBits + 1, Len(b)), d)
             t  == hi.r * 2^ChunkBits + FromBits(SubSeq(b, 1, Min(ChunkBits, Len(b))))
         IN [q |-> ToBitsN(t \div d, ChunkBits) \o hi.q, r |-> t % d]

\* b / 2^j rounded to the nearest integer, ties to even; sticky tells that
\* non-zero digits lie below b
RoundShift(b, j, sticky) ==
    IF j <= 0 THEN b
    ELSE LET q    == SubSeq(b, j + 1, Len(b))
             half == j <= Len(b) /\ b[j] = 1
             rest == sticky \/ \E i \in 1..Min(j - 1, Len(b)) : b[i] = 1
             odd  == q # <<>> /\ Head(q) = 1
         IN IF half /\ (rest \/ odd) THEN Inc(q) ELSE q

\* b rounded to SignificandBits significant bits, as [m, e] with value m * 2^e
RoundToFloat(b, sticky) ==
    LET t == Trim(b)
        j == IF Len(t) > SignificandBits THEN Len(t) - SignificandBits ELSE 0
    IN [m |-> RoundShift(t, j, sticky), e |-> j]

\* the float nearest to n / d, as [m, e] with value m * 2^(e - LiteralScale)
FloatOfRatio(n, d) ==
    LET qr == DivSmall([i \in 1..LiteralScale |-> 0] \o ToBitsN(n, IntBits), d)
    IN RoundToFloat(qr.q, qr.r # 0)

(***************************************************************************)
(* ass_utils._to_ass_time and text_utils.string_to_seconds                 *)
(***************************************************************************)
\* str(n) of a natural
RECURSIVE Digits(_)
Digits(n) ==
    IF n < 10 THEN <<SubSeq(<<"0", "1", "2", "3", "4", "5", "6", "7", "8", "9">>,
                            n + 1, n + 1)[1]>>
    ELSE Digits(n \div 10) \o Digits(n % 10)

\* the format {n:02d}
Pad2(n) == IF n < 10 THEN <<"0">> \o Digits(n) ELSE Digits(n)

\* the fields h, m, s, cs of _to_ass_time for the float nearest to ms / 1000.
\* The float is x = m * 2^(-frac_bits).  h, m and s come from the integer
\* part of x: the float division and remainders that feed int() are off by
\* less than one unit in the last place, and a value of millisecond
\* resolution is never that close to a boundary of the fields.  The three
\* subtractions are exact, and their result times 100 is rounded again.
TimeFields(ms) ==
    LET x         == FloatOfRatio(ms, 1000)
        frac_bits == LiteralScale - x.e
        whole     == FromBits(SubSeq(x.m, frac_bits + 1, Len(x.m)))
        fraction  == SubSeq(x.m, 1, Min(frac_bits, Len(x.m)))
        product   == RoundToFloat(MulSmall(fraction, 100, 0), FALSE)
        scaled    == [i \in 1..product.e |-> 0] \o product.m
    IN [h  |-> whole \div 3600,
        m  |-> (whole % 3600) \div 60,
        s  |-> whole % 60,
        cs |-> FromBits(SubSeq(scaled, frac_bits + 1, Len(scaled)))]

to_ass_time(ms) ==
    LET f == TimeFields(ms) IN
    Digits(f.h) \o <<":">> \o Pad2(f.m) \o <<":">> \o Pad2(f.s) \o <<".">> \o Pad2(f.cs)

\* what a call gives back: a value, or the exception it raised
Return(v) == [raised |-> FALSE, value |-> v]
Raise(e) == [raised |-> TRUE, value |-> e]

\* s.split(sep) for a one-character separator
RECURSIVE SplitOn(_, _)
SplitOn(s, sep) ==
    LET idx == {i \in 1..Len(s) : s[i] = sep} IN
    IF idx = {} THEN <<s>>
    ELSE LET i == CHOOSE j \in idx : \A k \in idx : j <= k IN
         <<SubSeq(s, 1, i - 1)>> \o SplitOn(SubSeq(s, i + 1, Len(s)), sep)

DecimalDigits == {"0", "1", "2", "3", "4", "5", "6", "7", "8", "9"}

DigitValue(c) == CHOOSE v \in 0..9 : Digits(v) = <<c>>

\* int(s) of a string of decimal digits
RECURSIVE ParseInt(_)
ParseInt(s) ==
    IF Len(s) = 1 THEN DigitValue(s[1])
    ELSE 10 * ParseInt(SubSeq(s, 1, Len(s) - 1)) + DigitValue(s[Len(s)])

IsDecimal(s) == s # <<>> /\ \A i \in DOMAIN s : s[i] \in DecimalDigits

\* string_to_seconds, in milliseconds: the digits after the point are read
\* as a count of milliseconds; a string of another shape raises ValueError
string_to_seconds(time_string) ==
    LET by_colon == SplitOn(time_string, ":")
        by_point == SplitOn(by_colon[3], ".")
    IN IF Len(by_colon) # 3 THEN Raise("ValueError")
       ELSE IF Len(by_point) # 2 THEN Raise("ValueError")
       ELSE IF ~(/\ IsDecimal(by_colon[1]) /\ IsDecimal(by_colon[2])
                 /\ IsDecimal(by_point[1]) /\ IsDecimal(by_point[2]))
            THEN Raise("ValueError")
            ELSE Return(ParseInt(by_colon[1]) * 3600000 + ParseInt(by_colon[2]) * 60000
                        + ParseInt(by_point[1]) * 1000 + ParseInt(by_point[2]))

\* one call of _to_ass_time
ToAssTime ==
    /\ pc = "to_ass_time"
    /\ time_code' = to_ass_time(seconds)
    /\ pc' = "encoded"
    /\ UNCHANGED <<caption_vars, seconds, decoded, color, alpha, ass_color,
                   font_family, font_dirs, font_name, subtitles, style_config,
                   ass_content>>
    /\ UNCHANGED <<regen_vars, ws_vars>>

\* one call of string_to_seconds on the time code
StringToSeconds ==
    /\ pc = "encoded"
    /\ decoded' = string_to_seconds(time_code)
    /\ pc' = "decoded"
    /\ UNCHANGED <<caption_vars, seconds, time_code, color, alpha, ass_color,
                   font_family, font_dirs, font_name, subtitles, style_config,
                   ass_content>>
    /\ UNCHANGED <<regen_vars, ws_vars>>

\* no call into the caption pipeline is under way
CaptionIdle ==
    /\ words = <<>>
    /\ doc_sents = <<>>
    /\ gen = DefaultGenerator
    /\ segments = <<>>
    /\ seg_i = 1
    /\ current_caption_words = <<>>
    /\ captions = <<>>
    /\ text = <<>>
    /\ lines = <<>>

\* the times of the specification's scenarios, in milliseconds
ScenarioTimes == {0, 5, 59999, 3599500, 3661256, 36000123}

\* the time codec on every time of millisecond resolution up to MaxMillis
InitTime ==
    /\ seconds \in (0..MaxMillis) \cup ScenarioTimes
    /\ time_code = <<>>
    /\ decoded = None
    /\ color = <<>>
    /\ alpha = <<>>
    /\ ass_color = None
    /\ font_family = <<>>
    /\ font_dirs = {}
    /\ font_name = <<>>
    /\ subtitles = <<>>
    /\ style_config = None
    /\ ass_content = None
    /\ CaptionIdle
    /\ pc = "to_ass_time"
    /\ ServicesIdle

NextTime == ToAssTime \/ StringToSeconds

SpecTime == InitTime /\ [][NextTime]_vars

(***************************************************************************)
(* ass_utils._hex_to_ass_color                                             *)
(***************************************************************************)
LowerCase == <<"a", "b", "c", "d", "e", "f", "g", "h", "i", "j", "k", "l", "m",
               "n", "o", "p", "q", "r", "s", "t", "u", "v", "w", "x", "y", "z">>
UpperCase == <<"A", "B", "C", "D", "E", "F", "G", "H", "I", "J", "K", "L", "M",
               "N", "O", "P", "Q", "R", "S", "T", "U", "V", "W", "X", "Y", "Z">>

\* str.upper() and str.lower()
Upper(s) ==
    [i \in DOMAIN s |->
        IF \E k \in DOMAIN LowerCase : LowerCase[k] = s[i]
        THEN UpperCase[CHOOSE k \in DOMAIN LowerCase : LowerCase[k] = s[i]]
        ELSE s[i]]

Lower(s) ==
    [i \in DOMAIN s |->
        IF \E k \in DOMAIN UpperCase : UpperCase[k] = s[i]
        THEN LowerCase[CHOOSE k \in DOMAIN UpperCase : UpperCase[k] = s[i]]
        ELSE s[i]]

\* s.startswith(prefix)
StartsWith(s, prefix) == Len(s) >= Len(prefix) /\ SubSeq(s, 1, Len(prefix)) = prefix

\* s.lstrip(ch)
RECURSIVE LStripChar(_, _)
LStripChar(s, ch) == IF s # <<>> /\ Head(s) = ch THEN LStripChar(Tail(s), ch) ELSE s

HexDigits == <<"0", "1", "2", "3", "4", "5", "6", "7", "8", "9",
               "a", "b", "c", "d", "e", "f">>

IsHex(s) ==
    s # <<>> /\ \A i \in DOMAIN s : \E k \in DOMAIN HexDigits : HexDigits[k] = Lower(s)[i]

HexValue(c) == (CHOOSE k \in DOMAIN HexDigits : HexDigits[k] = Lower(<<c>>)[1]) - 1

\* int(s, 16) of a string of hexadecimal digits
RECURSIVE ParseHex(_)
ParseHex(s) ==
    IF Len(s) = 1 THEN HexValue(s[1])
    ELSE 16 * ParseHex(SubSeq(s, 1, Len(s) - 1)) + HexValue(s[Len(s)])

\* the format {n:02X} of a natural
RECURSIVE HexUpper(_)
HexUpper(n) ==
    IF n < 16 THEN Upper(<<HexDigits[n + 1]>>) ELSE HexUpper(n \div 16) \o HexUpper(n % 16)

Pad2X(n) == IF n < 16 THEN <<"0">> \o HexUpper(n) ELSE HexUpper(n)

White == <<"&", "H", "0", "0", "F", "F", "F", "F", "F", "F">>
SemiTransparentBlack == <<"&", "H", "8", "0", "0", "0", "0", "0", "0", "0">>

\* the 6-digit branch with the channels left in the order r, g, b
SixDigitsUnreversed(raw, a) ==
    LET r == Slice(raw, 0, 2)
        g == Slice(raw, 2, 4)
        b == Slice(raw, 4, 6)
    IN <<"&", "H">> \o a \o Upper(r) \o Upper(g) \o Upper(b)

\* the 6-digit branch
SixDigits(raw, a) ==
    LET r == Slice(raw, 0, 2)
        g == Slice(raw, 2, 4)
        b == Slice(raw, 4, 6)
    IN <<"&", "H">> \o a \o Upper(b) \o Upper(g) \o Upper(r)

\* the 8-digit branch: alpha first when the colour starts with '#80', else last
EightDigits(c, raw) ==
    LET legacy == StartsWith(c, <<"#", "8", "0">>)
        aa     == IF legacy THEN Slice(raw, 0, 2) ELSE Slice(raw, 6, 8)
        r      == IF legacy THEN Slice(raw, 2, 4) ELSE Slice(raw, 0, 2)
        g      == IF legacy THEN Slice(raw, 4, 6) ELSE Slice(raw, 2, 4)
        b      == IF legacy THEN Slice(raw, 6, 8) ELSE Slice(raw, 4, 6)
    IN IF ~IsHex(aa) THEN Raise("ValueError")
       ELSE Return(<<"&", "H">> \o Pad2X(255 - ParseHex(aa))
                   \o Upper(b) \o Upper(g) \o Upper(r))

hex_to_ass_color(c, a) ==
    IF c = <<>> THEN Return(White)
    ELSE IF StartsWith(c, <<"r", "g", "b", "a">>) THEN Return(SemiTransparentBlack)
    ELSE LET raw == LStripChar(c, "#") IN
         IF Len(raw) = 6 THEN Return(SixDigits(raw, a))
         ELSE IF Len(raw) = 8 THEN EightDigits(c, raw)
         ELSE Return(White)

\* one call of _hex_to_ass_color
HexToAssColor ==
    /\ pc = "hex_to_ass_color"
    /\ ass_color' = hex_to_ass_color(color, alpha)
    /\ pc' = "converted"
    /\ UNCHANGED <<caption_vars, seconds, time_code, decoded, color, alpha,
                   font_family, font_dirs, font_name, subtitles, style_config,
                   ass_content>>
    /\ UNCHANGED <<regen_vars, ws_vars>>

\* two-character pieces colour strings are made of: bytes in hexadecimal, in
\* either case, and pieces that are no hexadecimal number
ColorPieces ==
    {<<"0", "0">>, <<"8", "0">>, <<"f", "f">>, <<"1", "A">>, <<"z", "z">>, <<"0", "g">>}

RECURSIVE Flatten(_)
Flatten(ss) == IF ss = <<>> THEN <<>> ELSE Head(ss) \o Flatten(Tail(ss))

NotAColor == <<"n", "o", "t", "-", "a", "-", "c", "o", "l", "o", "r">>
RgbaColor == <<"r", "g", "b", "a", "(", "0", ",", "0", ",", "0", ",", "1", ")">>

\* colour strings: with or without '#', of up to max_pieces pieces, of even
\* or odd length, and the strings that are no hex colour at all
Colors(max_pieces) ==
    {head \o Flatten(ps) \o tail :
        head \in {<<>>, <<"#">>},
        ps \in UNION {[1..n -> ColorPieces] : n \in 0..max_pieces},
        tail \in {<<>>, <<"0">>}}
    \cup {NotAColor, RgbaColor}

\* the alpha arguments of the callers
Alphas == {<<"0", "0">>, <<"8", "0">>}

InitColor ==
    /\ color \in Colors(MaxColorPieces)
    /\ alpha \in Alphas
    /\ ass_color = None
    /\ seconds = 0
    /\ time_code = <<>>
    /\ decoded = None
    /\ font_family = <<>>
    /\ font_dirs = {}
    /\ font_name = <<>>
    /\ subtitles = <<>>
    /\ style_config = None
    /\ ass_content = None
    /\ CaptionIdle
    /\ pc = "hex_to_ass_color"
    /\ ServicesIdle

NextColor == HexToAssColor

SpecColor == InitColor /\ [][NextColor]_vars

(***************************************************************************)
(* Optional values: None is the empty set, a value v is {v}                *)
(***************************************************************************)
Absent == {}
Some(v) == {v}
The(x) == CHOOSE v \in x : TRUE

\* x or d for an Optional[str]
StrOr(x, d) == IF x = Absent \/ x = Some(<<>>) THEN d ELSE The(x)

\* x or d for an Optional[int]
IntOr(x, d) == IF x = Absent \/ x = Some(0) THEN d ELSE The(x)

\* s.replace(old, new)
RECURSIVE Replace(_, _, _)
Replace(s, old, new) ==
    IF s = <<>> THEN <<>>
    ELSE IF StartsWith(s, old)
         THEN new \o Replace(SubSeq(s, Len(old) + 1, Len(s)), old, new)
         ELSE <<Head(s)>> \o Replace(Tail(s), old, new)

(***************************************************************************)
(* ass_utils._installed_font_families and _get_font_name                   *)
(***************************************************************************)
AmiriQuran == <<"A", "m", "i", "r", "i", " ", "Q", "u", "r", "a", "n">>
Amiri == <<"A", "m", "i", "r", "i">>
NotoSansArabic ==
    <<"N", "o", "t", "o", " ", "S", "a", "n", "s", " ", "A", "r", "a", "b", "i", "c">>
Cairo == <<"C", "a", "i", "r", "o">>
Comic == <<"C", "o", "m", "i", "c">>

\* family names are the folder names with '_' replaced by ' '
installed_font_families(dirs) == {Replace(name, <<"_">>, <<" ">>) : name \in dirs}

get_font_name(family, dirs) ==
    LET requested == Strip(StrOr(family, <<>>))
        installed == installed_font_families(dirs)
    IN IF requested = AmiriQuran THEN Amiri
       ELSE IF requested \in installed THEN requested
       ELSE IF Replace(requested, <<" ">>, <<"_">>)
               \in {Replace(name, <<" ">>, <<"_">>) : name \in installed}
            THEN requested
       ELSE NotoSansArabic

\* one call of _get_font_name
GetFontName ==
    /\ pc = "get_font_name"
    /\ font_name' = get_font_name(font_family, font_dirs)
    /\ pc' = "resolved"
    /\ UNCHANGED <<caption_vars, seconds, time_code, decoded, color, alpha,
                   ass_color, font_family, font_dirs, subtitles, style_config,
                   ass_content>>
    /\ UNCHANGED <<regen_vars, ws_vars>>

\* folder names found under the font directories
FontDirs ==
    {Replace(AmiriQuran, <<" ">>, <<"_">>), Amiri, Cairo,
     Replace(NotoSansArabic, <<" ">>, <<"_">>), <<"R", "u", "b", "i", "k">>,
     <<"T", "a", "j", "a", "w", "a", "l">>}

\* requested families: installed or not, padded with blanks, written with
\* underscores, empty, or None
Families ==
    {Some(f) : f \in {AmiriQuran, Amiri, Cairo, NotoSansArabic,
                      <<" ">> \o Cairo \o <<" ">>,
                      Replace(NotoSansArabic, <<" ">>, <<"_">>),
                      Replace(AmiriQuran, <<" ">>, <<"_">>),
                      Comic, <<>>}}
    \cup {Absent}

InitFont ==
    /\ font_family \in Families
    /\ font_dirs \in SUBSET FontDirs
    /\ font_name = <<>>
    /\ seconds = 0
    /\ time_code = <<>>
    /\ decoded = None
    /\ color = <<>>
    /\ alpha = <<>>
    /\ ass_color = None
    /\ subtitles = <<>>
    /\ style_config = None
    /\ ass_content = None
    /\ CaptionIdle
    /\ pc = "get_font_name"
    /\ ServicesIdle

NextFont == GetFontName

SpecFont == InitFont /\ [][NextFont]_vars

(***************************************************************************)
(* ass_utils.create_ass_content                                            *)
(***************************************************************************)
\* x is None or an empty string; x is None or zero or False
NoStr(x) == x = Absent \/ x = Some(<<>>)
NoInt(x) == x = Absent \/ x = Some(0)
NoFlag(x) == x = Absent \/ x = Some(FALSE)

\* sub in s
Contains(s, sub) ==
    \E i \in 0..(Len(s) - Len(sub)) : SubSeq(s, i + 1, i + Len(sub)) = sub

\* int(s) of a string of decimal digits, blanks around them allowed
int_of_str(s) ==
    IF IsDecimal(Strip(s)) THEN Return(ParseInt(Strip(s))) ELSE Raise("ValueError")

Max(a, b) == IF a > b THEN a ELSE b

\* round(n / d) of Python for an exact n / d: to the nearest, ties to even
RoundHalfEven(n, d) ==
    LET q == n \div d
        r == n % d
    IN IF 2 * r > d \/ (2 * r = d /\ q % 2 = 1) THEN q + 1 ELSE q

\* metric_scale = 1.35, a float
metric_scale == FloatOfRatio(135, 100)

\* int(round(font_size_num * metric_scale)): the product is a float too
ScaledFontSize(font_size_num) ==
    LET product   == RoundToFloat(MulSmall(metric_scale.m, font_size_num, 0), FALSE)
        frac_bits == LiteralScale - metric_scale.e - product.e
    IN FromBits(RoundShift(product.m, frac_bits, FALSE))

BoldTokens == {<<"m", "e", "d", "i", "u", "m">>, <<"s", "e", "m", "i">>, <<"s", "e", "m", "i", "b", "o", "l", "d">>, <<"b", "o", "l", "d">>, <<"e", "x", "t", "r", "a">>, <<"e", "x", "t", "r", "a", "b", "o", "l", "d">>, <<"b", "l", "a", "c", "k">>}

\* _get_ass_alignment_from_numpad accepting 10 as well
get_ass_alignment_up_to_ten(alignment) ==
    IF alignment \in 1..10 THEN alignment ELSE 2

\* _get_ass_alignment_from_numpad
get_ass_alignment_from_numpad(alignment) ==
    IF alignment \in 1..9 THEN alignment ELSE 2

\* the margin the style takes as MarginV, chosen with the alignment as it was
\* configured instead of the validated one
MarginVerticalUnvalidated(margin, alignment, configured) ==
    IF configured \in {1, 2, 3} THEN RoundHalfEven(margin.bottom, 2)
    ELSE IF configured \in {7, 8, 9} THEN RoundHalfEven(margin.top, 2)
    ELSE RoundHalfEven(margin.vertical, 2)

\* the margin the style takes as MarginV; margins count half pixels
MarginVertical(margin, alignment, configured) ==
    IF alignment \in {1, 2, 3} THEN RoundHalfEven(margin.bottom, 2)
    ELSE IF alignment \in {7, 8, 9} THEN RoundHalfEven(margin.top, 2)
    ELSE RoundHalfEven(margin.vertical, 2)

\* the text of a dialogue line with the closing brace left unescaped
DialogueTextOpenBraceOnly(t) ==
    Replace(Replace(<<"RLE">> \o t \o <<"PDF">>, <<"\n">>, <<"\\", "N">>),
            <<"{">>, <<"\\", "{">>)

\* the text of a dialogue line: bidi marks around it, then the escapes
DialogueText(t) ==
    Replace(Replace(Replace(<<"RLE">> \o t \o <<"PDF">>, <<"\n">>, <<"\\", "N">>),
                    <<"{">>, <<"\\", "{">>),
            <<"}">>, <<"\\", "}">>)

\* the loop over the subtitles: one line for every caption that has a text
RECURSIVE DialogueLines(_)
DialogueLines(subs) ==
    IF subs = <<>> THEN <<>>
    ELSE LET sub == Head(subs)
             t   == IF NoStr(sub.translation) THEN sub.text ELSE The(sub.translation)
         IN (IF t # <<>>
             THEN <<[Layer |-> 0,
                     Start |-> to_ass_time(sub.start_time),
                     End   |-> to_ass_time(sub.end_time),
                     Style |-> "Default",
                     Text  |-> DialogueText(t)]>>
             ELSE <<>>)
            \o DialogueLines(Tail(subs))

\* create_ass_content: the document as its fields, or the exception raised.
\* The final strip() removes nothing: a document ends with a header line or
\* with the mark that closes a dialogue text.
create_ass_content(subs, cfg, dirs) ==
    LET family        == get_font_name(cfg.fontFamily, dirs)
        primary_color == hex_to_ass_color(StrOr(cfg.color, <<"#", "f", "f", "f", "f", "f", "f">>), <<"0", "0">>)
        secondary_color ==
            IF NoStr(cfg.secondaryColor) \/ Lower(The(cfg.secondaryColor)) = <<"#", "0", "0", "0", "0", "f", "f">>
            THEN primary_color
            ELSE hex_to_ass_color(The(cfg.secondaryColor), <<"0", "0">>)
        outline_color == hex_to_ass_color(StrOr(cfg.outlineColor, <<"#", "0", "0", "0", "0", "0", "0">>), <<"0", "0">>)
        boxed         == /\ ~NoStr(cfg.backgroundColor)
                         /\ Lower(The(cfg.backgroundColor))
                                \notin {<<"t", "r", "a", "n", "s", "p", "a", "r", "e", "n", "t">>, <<"#", "0", "0", "0", "0", "0", "0", "0", "0">>}
        border_style  == IF boxed THEN 3 ELSE 1
        back_color    == IF boxed THEN hex_to_ass_color(The(cfg.backgroundColor), <<"0", "0">>)
                         ELSE Return(<<"&", "H", "0", "0", "0", "0", "0", "0", "0", "0">>)
        font_size_num == IF NoStr(cfg.fontSize) THEN Return(28)
                         ELSE int_of_str(Replace(Replace(The(cfg.fontSize),
                                                         <<"p", "x">>, <<>>), <<"p", "t">>, <<>>))
        weight        == Lower(StrOr(cfg.fontWeight, <<>>))
        bold_flag     == ~NoFlag(cfg.bold) \/ \E tok \in BoldTokens : Contains(weight, tok)
        italic_flag   == ~NoFlag(cfg.italic) \/ Contains(weight, <<"i", "t", "a", "l", "i", "c">>)
        outline       == LET o == Max(0, IntOr(cfg.outline, 2)) IN
                         IF border_style = 3 /\ o < 8 THEN 8 ELSE o
        shadow        == IF border_style = 3 THEN 0 ELSE Max(0, IntOr(cfg.shadow, 1))
        configured    == IntOr(cfg.alignment, 2)
        alignment     == get_ass_alignment_from_numpad(configured)
        margin        == The(cfg.margin)
    IN IF primary_color.raised THEN primary_color
       ELSE IF secondary_color.raised THEN secondary_color
       ELSE IF outline_color.raised THEN outline_color
       ELSE IF back_color.raised THEN back_color
       ELSE IF font_size_num.raised THEN font_size_num
       ELSE IF cfg.margin = Absent THEN Raise("AttributeError")
       ELSE Return(
           [PlayResX |-> 1280,
            PlayResY |-> 720,
            Style |->
               [Name            |-> "Default",
                Fontname        |-> family,
                Fontsize        |-> Max(8, ScaledFontSize(font_size_num.value)),
                PrimaryColour   |-> primary_color.value,
                SecondaryColour |-> secondary_color.value,
                OutlineColour   |-> outline_color.value,
                BackColour      |-> back_color.value,
                Bold            |-> IF bold_flag THEN -1 ELSE 0,
                Italic          |-> IF italic_flag THEN -1 ELSE 0,
                Underline       |-> IF NoFlag(cfg.underline) THEN 0 ELSE -1,
                StrikeOut       |-> IF NoFlag(cfg.strikeOut) THEN 0 ELSE -1,
                ScaleX          |-> IntOr(cfg.scaleX, 100),
                ScaleY          |-> IntOr(cfg.scaleY, 100),
                Spacing         |-> IntOr(cfg.spacing, 0),
                Angle           |-> IntOr(cfg.angle, 0),
                BorderStyle     |-> border_style,
                Outline         |-> outline,
                Shadow          |-> shadow,
                Alignment       |-> alignment,
                MarginL         |-> RoundHalfEven(margin.left, 2),
                MarginR         |-> RoundHalfEven(margin.right, 2),
                MarginV         |-> MarginVertical(margin, alignment, configured),
                Encoding        |-> 1],
            Dialogues |-> DialogueLines(subs)])

\* one call of create_ass_content
CreateAssContent ==
    /\ pc = "create_ass_content"
    /\ ass_content' = create_ass_content(subtitles, style_config, font_dirs)
    /\ pc' = "created"
    /\ UNCHANGED <<caption_vars, seconds, time_code, decoded, color, alpha,
                   ass_color, font_family, font_dirs, font_name, subtitles,
                   style_config>>
    /\ UNCHANGED <<regen_vars, ws_vars>>

\* CaptionMargin, in half pixels
CaptionMargin(left, right, vertical, bottom, top) ==
    [left |-> left, right |-> right, vertical |-> vertical, bottom |-> bottom,
     top |-> top]

\* SubtitleConfig(): the defaults of the fields create_ass_content reads
DefaultConfig ==
    [fontSize        |-> Some(<<"2", "8">>),
     fontFamily      |-> Some(NotoSansArabic),
     fontWeight      |-> Some(<<"B", "o", "l", "d">>),
     color           |-> Some(<<"#", "f", "f", "f", "f", "f", "f">>),
     secondaryColor  |-> Some(<<"#", "0", "0", "0", "0", "f", "f">>),
     outlineColor    |-> Some(<<"#", "0", "0", "0", "0", "0", "0">>),
     backgroundColor |-> Some(<<"#", "8", "0", "0", "0", "0", "0", "0", "0">>),
     bold            |-> Some(FALSE),
     italic          |-> Some(FALSE),
     underline       |-> Some(FALSE),
     strikeOut       |-> Some(FALSE),
     scaleX          |-> Some(100),
     scaleY          |-> Some(100),
     spacing         |-> Some(0),
     angle           |-> Some(0),
     outline         |-> Some(2),
     shadow          |-> Some(1),
     alignment       |-> Some(2),
     margin          |-> Some(CaptionMargin(20, 20, 20, 20, 20))]

\* other values a field of the configuration may hold, well-formed or not
OtherValues(field) ==
    CASE field = "fontSize" ->
             <<Some(<<"3", "2", "p", "x">>), Some(<<"1", "2", "p", "t">>), Some(<<"3", "5", "0">>), Some(<<"a", "b", "c">>), Some(<<"2", "8", ".", "5">>),
               Some(<<>>), Absent>>
      [] field = "fontFamily" ->
             <<Some(AmiriQuran), Some(Cairo), Some(Comic), Absent>>
      [] field = "fontWeight" ->
             <<Some(<<"R", "e", "g", "u", "l", "a", "r">>), Some(<<"S", "e", "m", "i", "B", "o", "l", "d", "I", "t", "a", "l", "i", "c">>), Some(<<"L", "i", "g", "h", "t">>), Absent,
               Some(<<"T", "h", "i", "n">>), Some(<<"E", "x", "t", "r", "a", "L", "i", "g", "h", "t">>), Some(<<"M", "e", "d", "i", "u", "m">>), Some(<<"B", "l", "a", "c", "k">>),
               Some(<<"I", "t", "a", "l", "i", "c">>), Some(<<>>)>>
      [] field = "color" ->
             <<Some(<<"#", "1", "A", "8", "0", "f", "f">>), Some(<<"#", "f", "f", "0", "0", "0", "0", "8", "0">>), Some(<<"#", "z", "z", "z", "z", "z", "z">>), Some(<<"#", "z", "z", "z", "z", "z", "z", "z", "z">>),
               Some(NotAColor), Absent>>
      [] field = "secondaryColor" ->
             <<Some(<<"#", "0", "0", "0", "0", "F", "F">>), Some(<<"#", "f", "f", "0", "0", "0", "0">>), Some(<<"#", "z", "z", "z", "z", "z", "z", "z", "z">>), Absent>>
      [] field = "outlineColor" ->
             <<Some(<<"#", "1", "0", "2", "0", "3", "0">>), Some(<<"#", "1", "2", "3", "4", "5">>), Some(<<"#", "0", "0", "0", "0", "z", "z", "z", "z">>), Absent>>
      [] field = "backgroundColor" ->
             <<Some(<<"t", "r", "a", "n", "s", "p", "a", "r", "e", "n", "t">>), Some(<<"#", "0", "0", "0", "0", "0", "0", "0", "0">>), Some(<<"#", "0", "0", "0", "0", "0", "0">>),
               Some(<<"#", "0", "0", "0", "0", "0", "0", "f", "f">>), Some(<<"#", "z", "z", "z", "z", "z", "z", "z", "z">>), Some(<<>>), Absent,
               Some(<<"#", "f", "f", "0", "0", "0", "0", "0", "0">>), Some(<<"#", "0", "0", "0", "0", "0", "0", "0", "1">>)>>
      [] field \in {"bold", "italic", "underline", "strikeOut"} ->
             <<Some(TRUE), Absent>>
      [] field \in {"scaleX", "scaleY"} -> <<Some(50), Some(0), Absent>>
      [] field = "spacing" -> <<Some(2), Absent>>
      [] field = "angle" -> <<Some(15), Absent>>
      [] field = "outline" -> <<Some(0), Some(10), Absent>>
      [] field = "shadow" -> <<Some(0), Some(3), Absent>>
      [] field = "alignment" ->
             <<Some(1), Some(3), Some(4), Some(5), Some(6), Some(7), Some(8), Some(9),
               Some(0), Some(-1), Some(10), Absent>>
      [] field = "margin" ->
             <<Some(CaptionMargin(10, 30, 40, 50, 60)),
               Some(CaptionMargin(21, 23, 25, 27, 31)), Absent>>

\* a field and the position of one of its other values
FieldChoices ==
    {fc \in (DOMAIN DefaultConfig) \X (1..12) : fc[2] <= Len(OtherValues(fc[1]))}

\* the configurations that differ from the default in at most k fields
RECURSIVE Configs(_)
Configs(k) ==
    IF k = 0 THEN {DefaultConfig}
    ELSE LET fewer == Configs(k - 1) IN
         fewer \cup {[cfg EXCEPT ![fc[1]] = OtherValues(fc[1])[fc[2]]] :
                        cfg \in fewer, fc \in FieldChoices}

\* CaptionData: times in milliseconds, a text and an optional translation
CaptionData(start_time, end_time, t, translation) ==
    [start_time |-> start_time, end_time |-> end_time, text |-> t,
     translation |-> translation]

SubtitleLists ==
    {<<>>,
     <<CaptionData(0, 290, <<"a", "{", "b", "}">>, Absent)>>,
     <<CaptionData(0, 1500, <<"a", "\n", "b">>, Absent),
       CaptionData(1500, 3661256, <<>>, Absent),
       CaptionData(3661256, 3662000, <<"c">>, Some(<<"d">>))>>,
     <<CaptionData(290, 1000, <<"x">>, Some(<<"{", "a", "\n", "}", "\\", "{", "\n">>)),
       CaptionData(1000, 1000, <<"RLE", "}", "PDF">>, Some(<<>>))>>}

\* create_ass_content on no caption with up to MaxAltered fields of the
\* configuration changed, and on every caption list, with and without fonts
\* on disk, with up to one field changed
InitAss ==
    /\ \/ /\ style_config \in Configs(MaxAltered)
          /\ subtitles = <<>>
          /\ font_dirs = FontDirs
       \/ /\ style_config \in Configs(1)
          /\ subtitles \in SubtitleLists
          /\ font_dirs \in {{}, FontDirs}
    /\ ass_content = None
    /\ seconds = 0
    /\ time_code = <<>>
    /\ decoded = None
    /\ color = <<>>
    /\ alpha = <<>>
    /\ ass_color = None
    /\ font_family = <<>>
    /\ font_name = <<>>
    /\ CaptionIdle
    /\ pc = "create_ass_content"
    /\ ServicesIdle

NextAss == CreateAssContent

SpecAss == InitAss /\ [][NextAss]_vars

(***************************************************************************)
(* TranscriptionGenerator.regenerate_captions_with_params, and a caller    *)
(* that keeps one generator and calls its two public methods on the same   *)
(* words.  The variable calls records every finished call: the generator's *)
(* fields before and after it, the fields generate_captions ran with, and  *)
(* what the caller got.                                                    *)
(***************************************************************************)
\* the record of a finished call
FinishedCall(before, raised) ==
    [method   |-> method,
     before   |-> before,
     ran_with |-> gen,
     after    |-> gen',
     raised   |-> raised,
     captions |-> IF raised THEN <<>> ELSE captions]

\* the caller calls generate_captions(words)
CallGenerate ==
    /\ pc = "idle"
    /\ Len(calls) < MaxCalls
    /\ method' = "generate_captions"
    /\ pc' = "call"
    /\ UNCHANGED <<caption_vars, original_params, calls>>
    /\ UNCHANGED <<ass_vars, ws_vars>>

\* generate_captions returns to the caller, or its exception reaches it
ReturnGenerate ==
    /\ pc \in {"done", "raised"}
    /\ method = "generate_captions"
    /\ UNCHANGED <<caption_vars, original_params>>
    /\ calls' = Append(calls, FinishedCall(gen, pc = "raised"))
    /\ method' = None
    /\ pc' = "idle"
    /\ UNCHANGED <<ass_vars, ws_vars>>

\* regenerate_captions_with_params up to its call of generate_captions: the
\* fields are saved in original_params and overridden
CallRegenerate ==
    /\ pc = "idle"
    /\ Len(calls) < MaxCalls
    /\ \E max_chars_per_line \in 0..MaxCharsPerLine,
          max_lines_per_caption \in 1..MaxLinesPerCaption,
          max_cps \in {MaxCps} :
           gen' = [max_chars_per_line    |-> max_chars_per_line,
                   max_lines_per_caption |-> max_lines_per_caption,
                   max_caption_duration  |-> MaxDuration,
                   max_cps               |-> max_cps,
                   max_caption_length    |-> max_chars_per_line * max_lines_per_caption]
    /\ original_params' = {gen}
    /\ method' = "regenerate_captions_with_params"
    /\ pc' = "call"
    /\ UNCHANGED <<words, doc_sents, segments, seg_i, current_caption_words,
                   captions, text, lines, calls>>
    /\ UNCHANGED <<ass_vars, ws_vars>>

\* generate_captions has returned: the fields are restored and the captions
\* returned
ReturnRegenerate ==
    /\ pc = "done"
    /\ method = "regenerate_captions_with_params"
    /\ gen' = The(original_params)
    /\ original_params' = {}
    /\ calls' = Append(calls, FinishedCall(The(original_params), FALSE))
    /\ method' = None
    /\ pc' = "idle"
    /\ UNCHANGED <<words, doc_sents, segments, seg_i, current_caption_words,
                   captions, text, lines>>
    /\ UNCHANGED <<ass_vars, ws_vars>>

\* generate_captions has raised: no handler and no finally clause, the
\* exception leaves regenerate_captions_with_params at line 243
RaiseRegenerate ==
    /\ pc = "raised"
    /\ method = "regenerate_captions_with_params"
    /\ UNCHANGED caption_vars
    /\ original_params' = {}
    /\ calls' = Append(calls, FinishedCall(The(original_params), TRUE))
    /\ method' = None
    /\ pc' = "idle"
    /\ UNCHANGED <<ass_vars, ws_vars>>

\* a generator built with the defaults, words in which only the texts vary
InitRegen ==
    /\ words \in UntimedWordLists(MaxRegenWords)
    /\ gen = DefaultGenerator
    /\ \E breaks \in SUBSET (1..(Len(words) - 1)) :
           doc_sents = IF words = <<>> THEN <<>> ELSE SentencesAt(words, breaks)
    /\ segments = <<>>
    /\ seg_i = 1
    /\ current_caption_words = <<>>
    /\ captions = <<>>
    /\ pc = "idle"
    /\ text = <<>>
    /\ lines = <<>>
    /\ AssIdle
    /\ ServicesIdle

NextRegen ==
    \/ CallGenerate
    \/ CallRegenerate
    \/ Next
    \/ ReturnGenerate
    \/ ReturnRegenerate
    \/ RaiseRegenerate

SpecRegen == InitRegen /\ [][NextRegen]_vars

(***************************************************************************)
(* websocket_service.ConnectionManager and the two endpoints of            *)
(* api/websocket.py.  The coroutines run on one event loop: what lies      *)
(* between two awaits is one step.  A websocket is a number; the registry  *)
(* holds for every project id None (no key) or the list under that key.    *)
(***************************************************************************)
Sockets == 1..MaxSockets

Projects == {"p1", "p2"}

\* x in s, and s.remove(x): the first occurrence goes
InSeq(s, x) == \E i \in DOMAIN s : s[i] = x

Remove(s, x) ==
    LET k == CHOOSE i \in DOMAIN s : s[i] = x /\ \A j \in 1..(i - 1) : s[j] # x
    IN SubSeq(s, 1, k - 1) \o SubSeq(s, k + 1, Len(s))

\* connect after the await: the appends of lines 18 to 23
connect(websocket, project_id, reg) ==
    [active   |-> Append(reg.active, websocket),
     projects |-> IF project_id = Absent THEN reg.projects
                  ELSE LET key  == The(project_id)
                           list == IF reg.projects[key] = Absent THEN <<>>
                                   ELSE The(reg.projects[key])
                       IN [reg.projects EXCEPT ![key] = Some(Append(list, websocket))]]

\* disconnect
disconnect(websocket, project_id, reg) ==
    [active   |-> IF InSeq(reg.active, websocket) THEN Remove(reg.active, websocket)
                  ELSE reg.active,
     projects |-> IF /\ project_id # Absent
                     /\ reg.projects[The(project_id)] # Absent
                     /\ InSeq(The(reg.projects[The(project_id)]), websocket)
                  THEN LET list == Remove(The(reg.projects[The(project_id)]), websocket)
                       IN [reg.projects EXCEPT ![The(project_id)] =
                              IF list = <<>> THEN Absent ELSE Some(list)]
                  ELSE reg.projects]

\* the clean-up loop: disconnect(ws, project_id) for every ws in disconnected
RECURSIVE CleanUp(_, _, _)
CleanUp(disconnected, project_id, reg) ==
    IF disconnected = <<>> THEN reg
    ELSE CleanUp(Tail(disconnected), project_id,
                 disconnect(Head(disconnected), project_id, reg))

\* a send coroutine that has not started, and one inside its for loop: ws is
\* the websocket of the pending send_text, i the number of items the list
\* iterator has handed out, and alive tells that the list it walks is still
\* the one in the registry (a list whose key was deleted is empty for ever)
IdleTask ==
    [pc |-> "idle", kind |-> "none", project_id |-> Absent, ws |-> 0, i |-> 0,
     disconnected |-> <<>>, alive |-> FALSE]

SendingTask(kind, project_id, list) ==
    [pc |-> "sending", kind |-> kind, project_id |-> project_id, ws |-> list[1],
     i |-> 1, disconnected |-> <<>>, alive |-> TRUE]

\* the list a for loop walks, as it is now
IterList(task) ==
    IF task.kind = "broadcast" THEN active_connections
    ELSE IF task.alive /\ project_connections[The(task.project_id)] # Absent
         THEN The(project_connections[The(task.project_id)])
         ELSE <<>>

\* the loops over a list whose key has just been deleted walk a dropped list
MarkDropped(ts, projects) ==
    [t \in DOMAIN ts |->
        IF /\ ts[t].pc = "sending"
           /\ ts[t].kind = "send_to_project"
           /\ projects[The(ts[t].project_id)] = Absent
        THEN [ts[t] EXCEPT !.alive = FALSE]
        ELSE ts[t]]

\* a client opens a websocket: the endpoint calls connect, which awaits accept
Connect(websocket) ==
    /\ endpoint[websocket].pc = "new"
    /\ endpoint' = [endpoint EXCEPT ![websocket].pc = "accept"]
    /\ UNCHANGED <<active_connections, project_connections, tasks, removed>>
    /\ UNCHANGED <<caption_vars, pc, ass_vars, regen_vars>>

\* accept returns: the websocket is registered and the endpoint awaits a message
Accepted(websocket) ==
    /\ endpoint[websocket].pc = "accept"
    /\ LET reg == connect(websocket, endpoint[websocket].project_id,
                          [active |-> active_connections, projects |-> project_connections])
       IN /\ active_connections' = reg.active
          /\ project_connections' = reg.projects
    /\ endpoint' = [endpoint EXCEPT ![websocket].pc = "receive"]
    /\ UNCHANGED <<tasks, removed>>
    /\ UNCHANGED <<caption_vars, pc, ass_vars, regen_vars>>

\* accept raises: connect is called outside the try of the endpoint
AcceptFails(websocket) ==
    /\ endpoint[websocket].pc = "accept"
    /\ endpoint' = [endpoint EXCEPT ![websocket].pc = "closed"]
    /\ UNCHANGED <<active_connections, project_connections, tasks, removed>>
    /\ UNCHANGED <<caption_vars, pc, ass_vars, regen_vars>>

\* the project endpoint receives a ping and awaits the send of the pong
Ping(websocket) ==
    /\ endpoint[websocket].pc = "receive"
    /\ endpoint[websocket].project_id # Absent
    /\ endpoint' = [endpoint EXCEPT ![websocket].pc = "pong"]
    /\ UNCHANGED <<active_connections, project_connections, tasks, removed>>
    /\ UNCHANGED <<caption_vars, pc, ass_vars, regen_vars>>

\* send_message is over, sent or failed (it swallows the exception)
Pong(websocket) ==
    /\ endpoint[websocket].pc = "pong"
    /\ endpoint' = [endpoint EXCEPT ![websocket].pc = "receive"]
    /\ UNCHANGED <<active_connections, project_connections, tasks, removed>>
    /\ UNCHANGED <<caption_vars, pc, ass_vars, regen_vars>>

\* receive_text raises (the client has gone): the endpoint calls disconnect
Disconnect(websocket) ==
    /\ endpoint[websocket].pc = "receive"
    /\ LET reg == disconnect(websocket, endpoint[websocket].project_id,
                             [active |-> active_connections, projects |-> project_connections])
       IN /\ active_connections' = reg.active
          /\ project_connections' = reg.projects
          /\ tasks' = MarkDropped(tasks, reg.projects)
    /\ endpoint' = [endpoint EXCEPT ![websocket].pc = "closed"]
    /\ UNCHANGED removed
    /\ UNCHANGED <<caption_vars, pc, ass_vars, regen_vars>>

\* send_to_project up to its first await: no key, or the first send_text
StartSendToProject(t, project_id) ==
    /\ tasks[t].pc = "idle"
    /\ tasks' = [tasks EXCEPT ![t] =
           IF project_connections[project_id] = Absent
           THEN [IdleTask EXCEPT !.pc = "done", !.kind = "send_to_project",
                                 !.project_id = Some(project_id)]
           ELSE SendingTask("send_to_project", Some(project_id),
                            The(project_connections[project_id]))]
    /\ UNCHANGED <<active_connections, project_connections, endpoint, removed>>
    /\ UNCHANGED <<caption_vars, pc, ass_vars, regen_vars>>

\* broadcast up to its first await: no connection, or the first send_text
StartBroadcast(t) ==
    /\ tasks[t].pc = "idle"
    /\ tasks' = [tasks EXCEPT ![t] =
           IF active_connections = <<>>
           THEN [IdleTask EXCEPT !.pc = "done", !.kind = "broadcast"]
           ELSE SendingTask("broadcast", Absent, active_connections)]
    /\ UNCHANGED <<active_connections, project_connections, endpoint, removed>>
    /\ UNCHANGED <<caption_vars, pc, ass_vars, regen_vars>>

\* a send_text is over, sent or raised: the loop goes on to the next item of
\* the list as it is now, or ends, and then the clean-up loop runs to its end
SendReturns(t, failed) ==
    /\ tasks[t].pc = "sending"
    /\ LET task         == tasks[t]
           disconnected == IF failed THEN Append(task.disconnected, task.ws)
                           ELSE task.disconnected
           list         == IterList(task)
       IN IF task.i < Len(list)
          THEN /\ tasks' = [tasks EXCEPT ![t].ws = list[task.i + 1],
                                         ![t].i = task.i + 1,
                                         ![t].disconnected = disconnected]
               /\ UNCHANGED <<active_connections, project_connections, removed>>
          ELSE LET reg == CleanUp(disconnected, task.project_id,
                                  [active |-> active_connections, projects |-> project_connections])
               IN /\ active_connections' = reg.active
                  /\ project_connections' = reg.projects
                  /\ tasks' = MarkDropped([tasks EXCEPT ![t].pc = "done",
                                                       ![t].ws = 0,
                                                       ![t].disconnected = disconnected],
                                          reg.projects)
                  /\ removed' = removed \cup {disconnected[k] : k \in DOMAIN disconnected}
    /\ UNCHANGED endpoint
    /\ UNCHANGED <<caption_vars, pc, ass_vars, regen_vars>>

\* ConnectionManager(): an empty registry; every client has chosen its
\* endpoint, /ws/{project_id} or /ws
InitWebsocket ==
    /\ active_connections = <<>>
    /\ project_connections = [project_id \in Projects |-> Absent]
    /\ endpoint \in [Sockets -> {[pc |-> "new", project_id |-> project_id] :
                                    project_id \in {Absent} \cup {Some(q) : q \in Projects}}]
    /\ tasks = [t \in 1..MaxTasks |-> IdleTask]
    /\ removed = {}
    /\ pc = "serving"
    /\ CaptionIdle
    /\ AssIdle
    /\ GeneratorIdle

NextWebsocket ==
    \/ \E websocket \in Sockets :
          \/ Connect(websocket)
          \/ Accepted(websocket)
          \/ AcceptFails(websocket)
          \/ Ping(websocket)
          \/ Pong(websocket)
          \/ Disconnect(websocket)
    \/ \E t \in 1..MaxTasks :
          \/ \E project_id \in Projects : StartSendToProject(t, project_id)
          \/ StartBroadcast(t)
          \/ \E failed \in BOOLEAN : SendReturns(t, failed)

SpecWebsocket == InitWebsocket /\ [][NextWebsocket]_vars

(***************************************************************************)
(* Properties                                                              *)
(***************************************************************************)
\* the words of a list of captions or segments, in order
RECURSIVE ConcatWords(_)
ConcatWords(cs) == IF cs = <<>> THEN <<>> ELSE Head(cs).words \o ConcatWords(Tail(cs))

\* the fields of the returned caption dicts
Returned(cs) ==
    [i \in DOMAIN cs |-> [start_time |-> cs[i].start_time,
                          end_time   |-> cs[i].end_time,
                          text       |-> cs[i].text]]

\* C1: when generate_captions returns, the words of its captions, concatenated
\* in caption order, are exactly the input word list, for every word list with
\* non-decreasing starts and every segmentation of it into sentences; the
\* empty word list gives the empty caption list.
C1_Coverage ==
    pc = "done" =>
        /\ ConcatWords(captions) = words
        /\ (words = <<>> => captions = <<>>)
        /\ \A i \in DOMAIN captions : captions[i].words # <<>>

C1_Witness ==
    /\ pc = "done"
    /\ Len(words) = 3
    /\ Len(captions) = 2
    /\ Len(doc_sents) = 3

\* C2: _create_semantic_segments partitions the input words, whatever spans
\* the boundary detector returns: every word is in exactly one sentence and
\* the sentences are contiguous and in input order.
C2_Partition ==
    pc = "segmented" =>
        /\ ConcatWords(segments) = words
        /\ \A i \in DOMAIN segments : segments[i].words # <<>>

\* C3: every caption generate_captions returns, from a flush inside the
\* sentence loop or from the final flush, has a space-joined text no longer
\* than max_caption_length, unless it consists of exactly one word.
C3_LengthBound ==
    pc = "done" =>
        \A i \in DOMAIN captions :
            \/ Len(captions[i].words) = 1
            \/ Len(JoinWords(captions[i].words)) <= gen.max_caption_length

\* C4: generate_captions raises no exception, also when a word alone is
\* longer than max_caption_length, wherever that word sits in the accumulator.
C4_NoException == pc # "raised"

\* C5: every returned caption of more than one word lasts at most
\* max_caption_duration seconds.
C5_DurationBound ==
    pc = "done" =>
        \A i \in DOMAIN captions :
            Len(captions[i].words) > 1 =>
                captions[i].end_time - captions[i].start_time
                    <= gen.max_caption_duration * 10

\* C6: every returned caption of more than one word with end_time > start_time
\* has len(text) / (end_time - start_time) <= max_cps.
C6_CpsBound ==
    pc = "done" =>
        \A i \in DOMAIN captions :
            (Len(captions[i].words) > 1 /\ captions[i].end_time > captions[i].start_time) =>
                Len(JoinWords(captions[i].words)) * 10
                    <= gen.max_cps * (captions[i].end_time - captions[i].start_time)

InScenario ==
    /\ words = ScenarioWords
    /\ doc_sents = ScenarioSents
    /\ gen = DefaultGenerator

HelloWorld == <<"H", "e", "l", "l", "o", " ", "w", "o", "r", "l", "d">>
ThisIsATest == <<"t", "h", "i", "s", " ", "i", "s", " ", "a", " ", "t", "e", "s", "t">>

\* C7 as stated: the scenario returns the two captions (0.0, 0.9, "Hello world")
\* and (1.5, 2.6, "this is a test").
C7_ScenarioTwoCaptions ==
    (InScenario /\ pc = "done") =>
        Returned(captions) =
            <<[start_time |-> 0, end_time |-> 9, text |-> HelloWorld],
              [start_time |-> 15, end_time |-> 26, text |-> ThisIsATest]>>

\* C7 as amended: the scenario returns exactly one caption,
\* (0.0, 2.6, "Hello world this is a test"), because the merge of the two
\* sentences violates none of the three limits.
C7_ScenarioOneCaption ==
    (InScenario /\ pc = "done") =>
        Returned(captions) =
            <<[start_time |-> 0, end_time |-> 26,
               text |-> HelloWorld \o <<" ">> \o ThisIsATest]>>

C7_Witness ==
    /\ InScenario
    /\ pc = "done"
    /\ Len(captions) = 1
    /\ Len(segments) = 2

\* number of line breaks of a caption text
RECURSIVE LineBreaks(_)
LineBreaks(s) ==
    IF s = <<>> THEN 0 ELSE (IF Head(s) = "\n" THEN 1 ELSE 0) + LineBreaks(Tail(s))

\* C8: format_multiline_caption returns exactly one or two lines, returns
\* [text] whenever len(text) <= max_chars_per_line, and the caption text
\* built from its lines holds at most one line break.
C8_LineCount ==
    pc = "formatted" =>
        /\ Len(lines) \in {1, 2}
        /\ (Len(text) <= gen.max_chars_per_line => lines = <<text>>)
        /\ LineBreaks(CaptionText(lines)) <= 1

C8_Witness ==
    /\ pc = "formatted"
    /\ Len(text) > gen.max_chars_per_line
    /\ Len(Split(text)) >= 3
    /\ Len(lines) = 2

\* the word-boundary splits of a text whose two lines both fit
FittingSplits(t, max) ==
    LET ws == Split(t) IN
    {<<Join(SubSeq(ws, 1, i), <<" ">>), Join(SubSeq(ws, i + 1, Len(ws)), <<" ">>)>> :
        i \in {j \in 1..(Len(ws) - 1) :
                  /\ Len(Join(SubSeq(ws, 1, j), <<" ">>)) <= max
                  /\ Len(Join(SubSeq(ws, j + 1, Len(ws)), <<" ">>)) <= max}}

\* C9: for a text longer than max_chars_per_line, when some fitting
\* word-boundary split has len(line1) >= len(line2), the returned split has
\* len(line1) >= len(line2).
C9_InvertedPyramid ==
    (/\ pc = "formatted"
     /\ Len(text) > gen.max_chars_per_line
     /\ \E sp \in FittingSplits(text, gen.max_chars_per_line) : Len(sp[1]) >= Len(sp[2]))
    => Len(lines[1]) >= Len(lines[2])

\* C10 as stated: when no token is longer than max_chars_per_line and
\* len(text) <= 2 * max_chars_per_line, every returned line has length
\* <= max_chars_per_line.
C10_LineLengthByTokens ==
    (/\ pc = "formatted"
     /\ \A i \in DOMAIN Split(text) : Len(Split(text)[i]) <= gen.max_chars_per_line
     /\ Len(text) <= 2 * gen.max_chars_per_line)
    => \A i \in DOMAIN lines : Len(lines[i]) <= gen.max_chars_per_line

\* C10 as amended: the first returned line never exceeds max_chars_per_line,
\* and every returned line is within the limit when the text is within it or
\* when some word-boundary split keeps both lines within it.
C10_LineLength ==
    pc = "formatted" =>
        /\ Len(lines[1]) <= gen.max_chars_per_line
        /\ (\/ Len(text) <= gen.max_chars_per_line
            \/ FittingSplits(text, gen.max_chars_per_line) # {})
           => \A i \in DOMAIN lines : Len(lines[i]) <= gen.max_chars_per_line

C10_Witness ==
    /\ pc = "formatted"
    /\ Len(text) > gen.max_chars_per_line
    /\ Cardinality(FittingSplits(text, gen.max_chars_per_line)) >= 2
    /\ Len(lines) = 2

\* C11: for every text whose tokens are separated by single spaces, joining
\* the returned lines with one space gives back the text, so that no token is
\* cut between line 1 and line 2, also on the hard wrap.
C11_NoMidWordSplit ==
    (pc = "formatted" /\ text = Join(Split(text), <<" ">>))
    => Join(lines, <<" ">>) = text

\* "H:MM:SS.cc" of a time in milliseconds, cc being its centiseconds truncated
to_ass_time_exact(ms) ==
    Digits(ms \div 3600000) \o <<":">> \o Pad2((ms \div 60000) % 60) \o <<":">>
    \o Pad2((ms \div 1000) % 60) \o <<".">> \o Pad2((ms \div 10) % 100)

\* C12: for every x >= 0 of millisecond resolution, _to_ass_time(x) is
\* "H:MM:SS.cc" with H = floor(x / 3600) unpadded, MM and SS in 00..59 and cc
\* the centiseconds of x truncated, each two-digit field zero-padded.
C12_TimeEncoding ==
    pc = "encoded" => time_code = to_ass_time_exact(seconds)

\* C13: for every x >= 0, string_to_seconds(_to_ass_time(x)) is within 0.01 s
\* of x.
C13_RoundTrip ==
    pc = "decoded" => (~decoded.raised /\ Abs(decoded.value - seconds) <= 10)

IsHexColor(c, n) == Len(c) = n + 1 /\ c[1] = "#" /\ IsHex(Tail(c))

C15_SixDigit ==
    (pc = "converted" /\ IsHexColor(color, 6)) =>
        /\ ~ass_color.raised
        /\ ass_color.value =
               <<"&", "H">> \o alpha \o Upper(SubSeq(color, 6, 7))
               \o Upper(SubSeq(color, 4, 5)) \o Upper(SubSeq(color, 2, 3))

C15_Witness ==
    /\ pc = "converted"
    /\ color = <<"#", "f", "f", "1", "A", "8", "0">>
    /\ alpha = <<"8", "0">>
    /\ ass_color = Return(<<"&", "H", "8", "0", "8", "0", "1", "A", "F", "F">>)

\* C16: for every colour string that is neither an rgba(...) string nor "#"
\* followed by exactly 6 or exactly 8 hexadecimal digits, _hex_to_ass_color
\* returns "&H00FFFFFF" and raises no exception.
C16_ColorFallback ==
    (/\ pc = "converted"
     /\ ~StartsWith(color, <<"r", "g", "b", "a">>)
     /\ ~IsHexColor(color, 6)
     /\ ~IsHexColor(color, 8))
    => ass_color = Return(White)

\* C20: _get_font_name returns the requested name unchanged when it is an
\* installed family (this test comes first, also for "Amiri Quran");
\* otherwise "Amiri" when the request is "Amiri Quran"; otherwise
\* "Noto Sans Arabic".  The name returned is thus an installed family, the
\* alias or the default.
C20_FontResolution ==
    pc = "resolved" =>
        LET requested == Strip(StrOr(font_family, <<>>))
            families  == installed_font_families(font_dirs)
        IN /\ font_name = (IF requested \in families THEN requested
                           ELSE IF requested = AmiriQuran THEN Amiri
                           ELSE NotoSansArabic)
           /\ font_name \in families \cup {Amiri, NotoSansArabic}

\* C17: for every caption list and every SubtitleConfig whose style fields
\* hold malformed values (non-hex colours of any length, a non-numeric
\* fontSize, an alignment out of range, an unknown font family, a missing
\* margin), create_ass_content returns a document and raises no exception.
C17_NoStylingException ==
    pc = "created" => ~ass_content.raised

\* the style line of the document returned
EmittedStyle == ass_content.value.Style

\* the alignment the style must carry for a configured alignment
FinalAlignment(configured) ==
    IF \E a \in 1..9 : configured = Some(a) THEN The(configured) ELSE 2

\* C18: the Alignment field of the emitted style is always an integer in
\* 1..9; it is the configured alignment when that is an integer in 1..9, and
\* 2 for every other configured value (0, negative, above 9, or missing).
C18_Alignment ==
    (pc = "created" /\ ~ass_content.raised) =>
        /\ EmittedStyle.Alignment \in 1..9
        /\ EmittedStyle.Alignment = FinalAlignment(style_config.alignment)

C18_Witness ==
    /\ pc = "created"
    /\ ~ass_content.raised
    /\ style_config.alignment = Some(0)
    /\ EmittedStyle.Alignment = 2

\* the margin the claim selects for MarginV, in half pixels
SelectedMargin(cfg) ==
    LET a == FinalAlignment(cfg.alignment)
        m == The(cfg.margin)
    IN IF a \in {1, 2, 3} THEN m.bottom ELSE IF a \in {7, 8, 9} THEN m.top ELSE m.vertical

\* C19 as stated: MarginL and MarginR are the configured left and right
\* margins, and MarginV is the configured bottom, top or vertical margin as
\* the final alignment is in 1..3, in 7..9 or in 4..6.
C19_MarginsUnchanged ==
    (pc = "created" /\ ~ass_content.raised) =>
        /\ 2 * EmittedStyle.MarginL = The(style_config.margin).left
        /\ 2 * EmittedStyle.MarginR = The(style_config.margin).right
        /\ 2 * EmittedStyle.MarginV = SelectedMargin(style_config)

\* C19 as amended: MarginL and MarginR are the configured left and right
\* margins rounded to the nearest integer, a half going to the even one, and
\* MarginV is the configured bottom, top or vertical margin, rounded in the
\* same way, as the final alignment is in 1..3, in 7..9 or in 4..6; an
\* invalid configured alignment, which resolves to 2, takes the bottom margin.
C19_MarginSelection ==
    (pc = "created" /\ ~ass_content.raised) =>
        /\ EmittedStyle.MarginL = RoundHalfEven(The(style_config.margin).left, 2)
        /\ EmittedStyle.MarginR = RoundHalfEven(The(style_config.margin).right, 2)
        /\ EmittedStyle.MarginV = RoundHalfEven(SelectedMargin(style_config), 2)

C19_Witness ==
    /\ pc = "created"
    /\ ~ass_content.raised
    /\ style_config.alignment = Some(10)
    /\ style_config.margin = Some(CaptionMargin(10, 30, 40, 50, 60))
    /\ EmittedStyle.MarginV = 25

\* the heavy weight tokens: medium, semibold, bold, extrabold, black
HeavyTokens == {<<"m", "e", "d", "i", "u", "m">>, <<"s", "e", "m", "i", "b", "o", "l", "d">>, <<"b", "o", "l", "d">>, <<"e", "x", "t", "r", "a", "b", "o", "l", "d">>, <<"b", "l", "a", "c", "k">>}

\* C21: with the bold flag unset, Bold is -1 exactly when the lower-cased
\* weight label contains a heavy token (so 0 for Thin, ExtraLight, Light and
\* Regular); with the italic flag unset, Italic is -1 exactly when the label
\* contains "italic"; both fields are -1 or 0.
C21_WeightFlags ==
    (pc = "created" /\ ~ass_content.raised) =>
        LET weight == Lower(StrOr(style_config.fontWeight, <<>>)) IN
        /\ EmittedStyle.Bold \in {-1, 0}
        /\ EmittedStyle.Italic \in {-1, 0}
        /\ NoFlag(style_config.bold) =>
               (EmittedStyle.Bold = -1 <=> \E tok \in HeavyTokens : Contains(weight, tok))
        /\ NoFlag(style_config.italic) =>
               (EmittedStyle.Italic = -1 <=> Contains(weight, <<"i", "t", "a", "l", "i", "c">>))

\* a background that is missing or fully transparent: no colour, the word
\* "transparent", or an 8-digit colour whose alpha byte is zero
TransparentBackground(bg) ==
    \/ NoStr(bg)
    \/ Lower(The(bg)) = <<"t", "r", "a", "n", "s", "p", "a", "r", "e", "n", "t">>
    \/ /\ IsHexColor(The(bg), 8)
       /\ ~StartsWith(The(bg), <<"#", "8", "0">>)
       /\ ParseHex(Slice(Tail(The(bg)), 6, 8)) = 0

\* the value of an optional field, its default when the field is missing
ValueOr(x, d) == IF x = Absent THEN d ELSE The(x)

\* C22: BorderStyle is 3 exactly when a background colour is configured and is
\* not fully transparent, and then Outline >= 8 and Shadow = 0; otherwise
\* BorderStyle is 1, BackColour is "&H00000000" and Outline and Shadow are the
\* configured ones.
C22_BoxMode ==
    (pc = "created" /\ ~ass_content.raised) =>
        IF TransparentBackground(style_config.backgroundColor)
        THEN /\ EmittedStyle.BorderStyle = 1
             /\ EmittedStyle.BackColour = <<"&", "H", "0", "0", "0", "0", "0", "0", "0", "0">>
             /\ EmittedStyle.Outline = ValueOr(style_config.outline, 2)
             /\ EmittedStyle.Shadow = ValueOr(style_config.shadow, 1)
        ELSE /\ EmittedStyle.BorderStyle = 3
             /\ EmittedStyle.Outline >= 8
             /\ EmittedStyle.Shadow = 0

\* the dialogue lines of the document returned
EmittedDialogues == ass_content.value.Dialogues

\* C23: the document holds exactly one Dialogue line per input caption, in
\* input order, the i-th with the time codes of the i-th caption, layer 0 and
\* style Default; no caption is skipped, an empty one neither.
C23_OneDialoguePerCaption ==
    (pc = "created" /\ ~ass_content.raised) =>
        /\ Len(EmittedDialogues) = Len(subtitles)
        /\ \A i \in DOMAIN subtitles :
               /\ EmittedDialogues[i].Layer = 0
               /\ EmittedDialogues[i].Style = "Default"
               /\ EmittedDialogues[i].Start = to_ass_time(subtitles[i].start_time)
               /\ EmittedDialogues[i].End = to_ass_time(subtitles[i].end_time)

\* the text a caption shows: its translation when it has one, else its text
ShownText(sub) == IF NoStr(sub.translation) THEN sub.text ELSE The(sub.translation)

\* the captions that have a text to show, in input order
ShownCaptions == SelectSeq(subtitles, LAMBDA sub : ShownText(sub) # <<>>)

\* a text with every newline replaced by the marker \N and every brace
\* preceded by a backslash, character by character
Escaped(t) ==
    Flatten([i \in DOMAIN t |->
                IF t[i] = "\n" THEN <<"\\", "N">>
                ELSE IF t[i] \in {"{", "}"} THEN <<"\\", t[i]>>
                ELSE <<t[i]>>])

\* C24: in every Dialogue line emitted, the text is the caption's text with
\* each brace preceded by a backslash and each newline replaced by \N, between
\* the embedding mark U+202B and the pop mark U+202C, which stay as they are.
C24_Escaping ==
    (pc = "created" /\ ~ass_content.raised) =>
        /\ Len(EmittedDialogues) = Len(ShownCaptions)
        /\ \A i \in DOMAIN EmittedDialogues :
               LET shown == EmittedDialogues[i].Text IN
               /\ shown = <<"RLE">> \o Escaped(ShownText(ShownCaptions[i])) \o <<"PDF">>
               /\ \A k \in DOMAIN shown :
                      /\ shown[k] # "\n"
                      /\ shown[k] \in {"{", "}"} => (k > 1 /\ shown[k - 1] = "\\")

C24_Witness ==
    /\ pc = "created"
    /\ ~ass_content.raised
    /\ \E i \in DOMAIN ShownCaptions :
           /\ \E k \in DOMAIN ShownText(ShownCaptions[i]) : ShownText(ShownCaptions[i])[k] = "{"
           /\ \E k \in DOMAIN ShownText(ShownCaptions[i]) : ShownText(ShownCaptions[i])[k] = "}"
           /\ \E k \in DOMAIN ShownText(ShownCaptions[i]) : ShownText(ShownCaptions[i])[k] = "\n"
           /\ Len(EmittedDialogues[i].Text) > Len(ShownText(ShownCaptions[i])) + 2

\* C29: without a background box every configured outline and shadow
\* thickness >= 0, the value 0 included, is emitted unchanged, and so is a
\* configured scaleX or scaleY; the defaults 2, 1 and 100 are used only for a
\* missing field.
C29_ZeroIsAValue ==
    (pc = "created" /\ ~ass_content.raised) =>
        /\ EmittedStyle.ScaleX = ValueOr(style_config.scaleX, 100)
        /\ EmittedStyle.ScaleY = ValueOr(style_config.scaleY, 100)
        /\ EmittedStyle.BorderStyle = 1 =>
               /\ ValueOr(style_config.outline, 2) >= 0 =>
                      EmittedStyle.Outline = ValueOr(style_config.outline, 2)
               /\ ValueOr(style_config.shadow, 1) >= 0 =>
                      EmittedStyle.Shadow = ValueOr(style_config.shadow, 1)

\* C27: every iteration of the oversize-split loop takes at least one word
\* from the front of the accumulator, so the loop ends after at most as many
\* iterations as there are accumulated words; the caption it emits holds the
\* longest prefix of at most all-but-one words whose joined text fits
\* max_caption_length, or exactly one word when no such prefix fits.
C27_SplitProgress ==
    [][(pc = "split" /\ pc' = "split") =>
          LET n    == Len(current_caption_words) - Len(current_caption_words')
              fits == {j \in 1..(Len(current_caption_words) - 1) :
                          Len(JoinWords(SubSeq(current_caption_words, 1, j)))
                              <= gen.max_caption_length}
          IN /\ n >= 1
             /\ Len(captions') = Len(captions) + 1
             /\ captions'[Len(captions')].words = SubSeq(current_caption_words, 1, n)
             /\ current_caption_words' =
                    SubSeq(current_caption_words, n + 1, Len(current_caption_words))
             /\ IF fits = {} THEN n = 1
                ELSE n \in fits /\ \A j \in fits : j <= n]_vars

\* the loop has run on an accumulator of three words that do not fit together
\* and has emitted the first two of them, the longest prefix that fits
C27_Witness ==
    /\ pc = "split"
    /\ Len(captions) = 1
    /\ Len(captions[1].words) = 2
    /\ Len(current_caption_words) = 1
    /\ Len(JoinWords(captions[1].words)) <= gen.max_caption_length
    /\ Len(JoinWords(captions[1].words \o current_caption_words)) > gen.max_caption_length

\* C26: when the next sentence, appended to a non-empty accumulator, makes the
\* merge violate a limit, the step emits exactly the words accumulated before
\* (none of the sentence's) and leaves the sentence's words as the new
\* accumulator; with an empty accumulator or no limit violated, the step emits
\* nothing and appends the sentence's words.
C26_FlushBeforeIntegrate ==
    [][/\ (pc = "loop" /\ seg_i <= Len(segments)) =>
              LET sentence == segments[seg_i].words IN
              IF /\ current_caption_words # <<>>
                 /\ ConstraintViolated(current_caption_words \o sentence, gen)
              THEN /\ pc' = "split"
                   /\ captions' = captions
                   /\ current_caption_words' = current_caption_words
              ELSE /\ pc' = "loop"
                   /\ captions' = captions
                   /\ current_caption_words' = current_caption_words \o sentence
       /\ pc = "split" =>
              /\ pc' \in {"split", "loop"}
              /\ ConcatWords(captions')
                     \o (IF pc' = "split" THEN current_caption_words' ELSE <<>>)
                  = ConcatWords(captions) \o current_caption_words
              /\ pc' = "loop" => current_caption_words' = segments[seg_i].words]_vars

\* two finished calls gave the caller the same: the same exception or the
\* same caption list
SameOutcome(a, b) ==
    /\ a.raised = b.raised
    /\ Returned(a.captions) = Returned(b.captions)

\* C25: two calls of regenerate_captions_with_params with the same words and
\* parameters return the same captions, and generate_captions returns the
\* same captions after any number of regenerations as before them.
C25_Idempotent ==
    \A i, j \in DOMAIN calls :
        /\ (/\ calls[i].method = "regenerate_captions_with_params"
            /\ calls[j].method = "regenerate_captions_with_params"
            /\ calls[i].ran_with = calls[j].ran_with) => SameOutcome(calls[i], calls[j])
        /\ (/\ calls[i].method = "generate_captions"
            /\ calls[j].method = "generate_captions") => SameOutcome(calls[i], calls[j])

\* C28: after every call of regenerate_captions_with_params, returned or
\* raised, the five fields of the generator are what they were before it, and
\* max_caption_length = max_chars_per_line * max_lines_per_caption whenever
\* captions are being generated.
C28_ParamsRestored ==
    /\ \A i \in DOMAIN calls :
           calls[i].method = "regenerate_captions_with_params" =>
               calls[i].after = calls[i].before
    /\ pc \in {"call", "loop", "split"} =>
           gen.max_caption_length = gen.max_chars_per_line * gen.max_lines_per_caption

\* C30: every websocket listed under a project is in active_connections, no
\* project key maps to an empty list, and a websocket removed after a failed
\* send is in neither structure.
C30_RegistryConsistent ==
    pc = "serving" =>
        /\ \A project_id \in Projects :
               project_connections[project_id] # Absent =>
                   /\ The(project_connections[project_id]) # <<>>
                   /\ \A k \in DOMAIN The(project_connections[project_id]) :
                          InSeq(active_connections, The(project_connections[project_id])[k])
        /\ \A websocket \in removed :
               /\ ~InSeq(active_connections, websocket)
               /\ \A project_id \in Projects :
                      project_connections[project_id] # Absent =>
                          ~InSeq(The(project_connections[project_id]), websocket)

====
